---- MODULE Spec2Model ----
(***************************************************************************)
(* Model of the Alpaca adapter layer of vibe-trader                        *)
(* (src/Elijah/alpaca_tools.py).  A tool invocation is one step: the tool  *)
(* runs from entry to its return with the vendor's responses and the       *)
(* outcome of chart generation chosen by the environment; the agent then   *)
(* receives the result and may dispatch the next tool.                     *)
(*                                                                         *)
(* A second specification, ConcSpec, runs several invocations as asyncio   *)
(* tasks on one event loop: a task runs without interruption from one      *)
(* await that can suspend it to the next, and the tasks interleave at      *)
(* those points.                                                           *)
(*                                                                         *)
(* Python strings whose characters the code inspects (side, interval,      *)
(* symbol, symbols) are sequences of one-character strings; dictionaries   *)
(* are functions whose domain is a set of strings.                         *)
(***************************************************************************)
EXTENDS Integers, Sequences, FiniteSets, TLC

VARIABLES pc, op, args, env, calls, ret, artifacts,
          tasks, globals, submitted, dispatched, run

vars == <<pc, op, args, env, calls, ret, artifacts,
          tasks, globals, submitted, dispatched, run>>

(***************************************************************************)
(* Bounds of the model.                                                    *)
(***************************************************************************)
MaxBars == 2
MaxItems == 2
MaxInvocations == 3

(***************************************************************************)
(* Python strings.                                                         *)
(***************************************************************************)
UpperAlpha ==
  <<"A","B","C","D","E","F","G","H","I","J","K","L","M",
    "N","O","P","Q","R","S","T","U","V","W","X","Y","Z">>

LowerAlpha ==
  <<"a","b","c","d","e","f","g","h","i","j","k","l","m",
    "n","o","p","q","r","s","t","u","v","w","x","y","z">>

LowerChar(c) ==
  IF \E i \in 1..Len(UpperAlpha) : UpperAlpha[i] = c
  THEN LowerAlpha[CHOOSE i \in 1..Len(UpperAlpha) : UpperAlpha[i] = c]
  ELSE c

\* str.lower()
lower(s) == [i \in 1..Len(s) |-> LowerChar(s[i])]

\* the Python string object a character sequence stands for
RECURSIVE Str(_)
Str(s) == IF s = <<>> THEN "" ELSE Head(s) \o Str(Tail(s))

\* "c in s" for a one-character c
Contains(s, c) == \E i \in 1..Len(s) : s[i] = c

\* Python values the dispatcher can pass for a string parameter
PyStr(s) == [ty |-> "str", s |-> s]
PyNone == [ty |-> "NoneType", s |-> <<>>]
PyInt == [ty |-> "int", s |-> <<>>]

(***************************************************************************)
(* Dictionaries, exceptions and the outcome of a block of code.            *)
(***************************************************************************)
EmptyDict == <<>>

Drop(d, f) == [k \in DOMAIN d \ {f} |-> d[k]]

\* a block either returns a value or raises an exception
Ret(v) == [exc |-> FALSE, value |-> v, etype |-> "", arg |-> ""]
Raise(t, a) == [exc |-> TRUE, value |-> EmptyDict, etype |-> t, arg |-> a]

\* str(e): a KeyError prints the repr of its key, the others their message
StrExc(e) == IF e.etype = "KeyError" THEN "'" \o e.arg \o "'" ELSE e.arg

ErrorResult(m) == [status |-> "error", message |-> m]

\* what a handler did: its outcome, its vendor calls, the artifacts it saved
H(o, c, a) == [out |-> o, calls |-> c, arts |-> a]

\* try: ... except Exception as e: return {"status": "error", "message": str(e)}
Catch(h) ==
  IF h.out.exc THEN H(Ret(ErrorResult(StrExc(h.out))), h.calls, h.arts) ELSE h

\* d[f] for each f of fields, in order: the first missing key raises KeyError
RECURSIVE FirstMissing(_, _)
FirstMissing(d, fields) ==
  IF fields = <<>> THEN ""
  ELSE IF Head(fields) \notin DOMAIN d THEN Head(fields)
  ELSE FirstMissing(d, Tail(fields))

(***************************************************************************)
(* The vendor.  A vendor call raises, returns None (a malformed payload),  *)
(* or returns a payload of the documented container type.                  *)
(***************************************************************************)
VendorMessages == {"order not found", "forbidden"}

VRaise(m) == [kind |-> "raise", msg |-> m, data |-> EmptyDict]
VNone == [kind |-> "none", msg |-> "", data |-> EmptyDict]
VOk(d) == [kind |-> "ok", msg |-> "", data |-> d]

VendorCall(client, endpoint, req) ==
  [client |-> client, endpoint |-> endpoint, req |-> req]

FullOrder(n) ==
  [id |-> n, symbol |-> "AAPL", qty |-> "0.5", order_type |-> "market",
   side |-> "buy", type |-> "mkt", time_in_force |-> "day",
   status |-> "pending_new", position_intent |-> "buy_to_open",
   asset_class |-> "us_equity", expires_at |-> "2025-09-28T20:00:00Z"]

OrderPayloads ==
  {FullOrder(1), FullOrder(2), Drop(FullOrder(1), "id"),
   Drop(FullOrder(2), "expires_at")}

SubmitResponses ==
  {VRaise(m) : m \in VendorMessages} \cup {VNone}
    \cup {VOk(o) : o \in OrderPayloads}

SeqsUpTo(S, n) == UNION {[1..k -> S] : k \in 0..n}

OrderListResponses ==
  {VRaise(m) : m \in VendorMessages} \cup {VNone}
    \cup {VOk(l) : l \in SeqsUpTo(OrderPayloads, MaxItems)}

FullAsset(s) == [symbol |-> s, class |-> "crypto", status |-> "active"]

AssetPayloads ==
  {FullAsset("BTC/USD"), FullAsset("ETH/USD"),
   Drop(FullAsset("SOL/USD"), "symbol")}

AssetListResponses ==
  {VRaise(m) : m \in VendorMessages} \cup {VNone}
    \cup {VOk(l) : l \in SeqsUpTo(AssetPayloads, MaxItems)}

CancelResponses == {VRaise(m) : m \in VendorMessages} \cup {VNone}

CloseResponses ==
  {VRaise(m) : m \in VendorMessages} \cup {VNone}
    \cup {VOk(<<>>), VOk(<<[symbol |-> "AAPL", status |-> 200]>>)}

FullPosition(s) ==
  [symbol |-> s, exchange |-> "NASDAQ", asset_class |-> "us_equity",
   qty |-> "0.5", avg_entry_price |-> "203.5", side |-> "long",
   market_value |-> "103.45", cost_basis |-> "101.75",
   unrealized_pl |-> "1.7", unrealized_plpc |-> "0.0167",
   unrealized_intraday_pl |-> "0.865", unrealized_intraday_plpc |-> "0.0084",
   current_price |-> "206.9", lastday_price |-> "205.17",
   change_today |-> "0.0084"]

PositionPayloads ==
  {FullPosition("AAPL"), FullPosition("TSLA"),
   Drop(FullPosition("AAPL"), "lastday_price"),
   Drop(FullPosition("TSLA"), "market_value"),
   [FullPosition("AAPL") EXCEPT !["unrealized_plpc"] = "n/a"]}

PositionListResponses ==
  {VRaise(m) : m \in VendorMessages} \cup {VNone}
    \cup {VOk(l) : l \in SeqsUpTo(PositionPayloads, MaxItems)}

FullAccount ==
  [id |-> "3394134a", account_number |-> "PA3NV9Q7CWET", status |-> "ACTIVE",
   currency |-> "USD", buying_power |-> "199178.71", cash |-> "99491.65",
   equity |-> "99936.41", long_market_value |-> "444.76",
   short_market_value |-> "0", portfolio_value |-> "99936.42",
   effective_buying_power |-> "199178.72",
   non_marginable_buying_power |-> "99327.41",
   options_buying_power |-> "99327.42", last_equity |-> "99954.515"]

AccountPayloads ==
  {FullAccount, Drop(FullAccount, "last_equity"), Drop(FullAccount, "cash"),
   Drop(FullAccount, "id"),
   [FullAccount EXCEPT !["short_market_value"] = "n/a"]}

AccountResponses ==
  {VRaise(m) : m \in VendorMessages} \cup {VNone}
    \cup {VOk(a) : a \in AccountPayloads}

\* a vendor timestamp: always UTC ("Z"), possibly with fractional seconds
Timestamp(hour, frac) == [date |-> "2025-06-30", hour |-> hour, frac |-> frac]

Bar(p, ts) ==
  [t |-> ts, o |-> p, h |-> p + 2, l |-> p - 1, c |-> p + 1, v |-> 10 * p,
   vw |-> p + 5, n |-> 3 * p]

BarPayloads ==
  {Bar(10, Timestamp(13, 0)), Bar(20, Timestamp(14, 5)),
   Drop(Bar(10, Timestamp(13, 0)), "c"),
   Drop(Bar(20, Timestamp(14, 0)), "vw")}

\* the response to a request for bars: it raises, is None, or is a
\* dictionary that holds bars under the requested symbol ("same"), under
\* another symbol ("other"), or holds nothing ("absent")
BarsResponses ==
  {VRaise("forbidden"), VNone,
   VOk([key |-> "absent", bars |-> <<>>]),
   VOk([key |-> "other", bars |-> <<Bar(10, Timestamp(13, 0))>>])}
    \cup {VOk([key |-> "same", bars |-> l]) :
            l \in SeqsUpTo(BarPayloads, MaxBars)}

\* the dictionary the data client returned for the requested symbol
VendorBars(vresp, requested) ==
  IF vresp.kind # "ok" \/ vresp.data.key = "absent" THEN EmptyDict
  ELSE IF vresp.data.key = "same" THEN requested :> vresp.data.bars
  ELSE "ZZZ" :> vresp.data.bars

FullArticle(n) ==
  [id |-> n, headline |-> "Bitcoin To Reach A Gazillion",
   summary |-> "Massive money printing", source |-> "benzinga",
   created_at |-> "2025-07-01T08:19:19Z", author |-> "Aniket Verma"]

ArticlePayloads ==
  {FullArticle(1), FullArticle(2), Drop(FullArticle(1), "headline")}

NewsResponses ==
  {VRaise(m) : m \in VendorMessages} \cup {VNone}
    \cup {VOk([next_page_token |-> "MTc1"])}
    \cup {VOk([news |-> l, next_page_token |-> "MTc1"]) :
            l \in SeqsUpTo(ArticlePayloads, MaxItems)}

(***************************************************************************)
(* Order placement.                                                        *)
(***************************************************************************)
OrderReadFields ==
  <<"id", "symbol", "qty", "order_type", "side", "type", "time_in_force",
    "status", "position_intent", "asset_class", "expires_at">>

\* the order dictionary built from a vendor order (lines 279-289)
NormalizeOrder(order) ==
  IF FirstMissing(order, OrderReadFields) # ""
  THEN Raise("KeyError", FirstMissing(order, OrderReadFields))
  ELSE Ret([id |-> order["id"], symbol |-> order["symbol"],
            qty |-> order["qty"], order_type |-> order["order_type"],
            side |-> order["side"], type |-> order["type"],
            time_in_force |-> order["time_in_force"],
            status |-> order["status"],
            position_intent |-> order["position_intent"],
            asset_class |-> order["asset_class"],
            expired_at |-> order["expires_at"]])

BUY == <<"b", "u", "y">>
SELL == <<"s", "e", "l", "l">>

InvalidSide(side) == lower(side) \notin {BUY, SELL}

OrderSideOfFlipped(side) == IF lower(side) = BUY THEN "SELL" ELSE "BUY"
OrderSideOf(side) == IF lower(side) = BUY THEN "BUY" ELSE "SELL"

MarketOrderRequest(symbol, quantity, side, time_in_force) ==
  [symbol |-> symbol, qty |-> quantity, side |-> OrderSideOf(side),
   type |-> "MARKET", time_in_force |-> time_in_force]

\* the try block of _place_market_order; ctor tells whether the SDK accepts
\* the request parameters (it validates them when the request is built)
PlaceOrderTry(symbol, quantity, side, time_in_force, ctor, vresp) ==
  IF ctor = "raise"
  THEN H(Raise("ValidationError", "invalid order request"), <<>>, <<>>)
  ELSE
    LET req == MarketOrderRequest(symbol, quantity, side, time_in_force)
        sent == <<VendorCall("trading", "submit_order", req)>>
    IN  IF vresp.kind = "raise"
        THEN H(Raise("APIError", vresp.msg), sent, <<>>)
        ELSE IF vresp.kind = "none"
        THEN H(Raise("TypeError", "'NoneType' object is not subscriptable"),
               sent, <<>>)
        ELSE LET n == NormalizeOrder(vresp.data)
             IN  IF n.exc THEN H(n, sent, <<>>)
                 ELSE H(Ret([status |-> "success", order |-> n.value]),
                        sent, <<>>)

place_market_order_unvalidated(symbol, quantity, side, time_in_force, ctor, vresp) ==
  IF side.ty # "str"
  THEN H(Raise("AttributeError", "object has no attribute 'lower'"), <<>>, <<>>)
  ELSE Catch(PlaceOrderTry(symbol, quantity, side.s, time_in_force, ctor, vresp))

\* _place_market_order: side.lower() is evaluated before the try block
_place_market_order(symbol, quantity, side, time_in_force, ctor, vresp) ==
  IF side.ty # "str"
  THEN H(Raise("AttributeError", "object has no attribute 'lower'"), <<>>, <<>>)
  ELSE IF InvalidSide(side.s)
  THEN H(Ret(ErrorResult("Invalid order side. Use 'buy' or 'sell'.")),
         <<>>, <<>>)
  ELSE Catch(PlaceOrderTry(symbol, quantity, side.s, time_in_force, ctor, vresp))

place_crypto_market_order_day(symbol, quantity, side, ctor, vresp) ==
  _place_market_order(symbol, quantity, side, "DAY", ctor, vresp)
place_crypto_market_order(symbol, quantity, side, ctor, vresp) ==
  _place_market_order(symbol, quantity, side, "GTC", ctor, vresp)

place_stock_market_order(symbol, quantity, side, ctor, vresp) ==
  _place_market_order(symbol, quantity, side, "DAY", ctor, vresp)

(***************************************************************************)
(* Order listings and cancellation.                                        *)
(***************************************************************************)
RECURSIVE NormalizeOrders(_)
\* the list comprehension over the vendor's orders: the first order that
\* lacks a field raises, and nothing is returned for the others
NormalizeOrders(orders) ==
  IF orders = <<>> THEN Ret(<<>>)
  ELSE LET n == NormalizeOrder(Head(orders))
       IN  IF n.exc THEN n
           ELSE LET rest == NormalizeOrders(Tail(orders))
                IN  IF rest.exc THEN rest
                    ELSE Ret(<<n.value>> \o rest.value)

\* the body shared by the three listings: status is the QueryOrderStatus
\* filter and key the name the list is returned under
OrdersTry(status, key, vresp) ==
  LET sent == <<VendorCall("trading", "get_orders", [status |-> status])>>
  IN  IF vresp.kind = "raise"
      THEN H(Raise("APIError", vresp.msg), sent, <<>>)
      ELSE IF vresp.kind = "none"
      THEN H(Raise("TypeError", "'NoneType' object is not iterable"),
             sent, <<>>)
      ELSE LET n == NormalizeOrders(vresp.data)
           IN  IF n.exc THEN H(n, sent, <<>>)
               ELSE H(Ret(("status" :> "success") @@ (key :> n.value)),
                      sent, <<>>)

get_all_orders(vresp) == Catch(OrdersTry("ALL", "orders", vresp))

get_open_orders(vresp) == Catch(OrdersTry("OPEN", "open_orders", vresp))

get_closed_orders(vresp) ==
  Catch(OrdersTry("CLOSED", "cancelled_orders", vresp))

DecimalDigits == <<"1", "2", "3", "4", "5", "6", "7", "8", "9">>

\* f"{order_id}": a string as it is, an integer in decimal
Format(v) == IF v.ty = "str" THEN v.v ELSE DecimalDigits[v.v]

CancelTryLost(order_id, vresp) ==
  LET sent == <<VendorCall("trading", "cancel_order_by_id",
                           [order_id |-> order_id])>>
  IN  IF vresp.kind = "raise"
      THEN H(Raise("APIError", "cancel failed"), sent, <<>>)
      ELSE H(Ret([status |-> "success", cancelled_order |-> Format(order_id)]),
             sent, <<>>)
CancelTry(order_id, vresp) ==
  LET sent == <<VendorCall("trading", "cancel_order_by_id",
                           [order_id |-> order_id])>>
  IN  IF vresp.kind = "raise"
      THEN H(Raise("APIError", vresp.msg), sent, <<>>)
      ELSE H(Ret([status |-> "success", cancelled_order |-> Format(order_id)]),
             sent, <<>>)

cancel_order_by_id(order_id, vresp) == Catch(CancelTry(order_id, vresp))

(***************************************************************************)
(* Supported crypto symbols.                                               *)
(***************************************************************************)
RECURSIVE SymbolsOf(_)
\* [asset["symbol"] for asset in assets if "symbol" in asset]
SymbolsOf(assets) ==
  IF assets = <<>> THEN <<>>
  ELSE IF "symbol" \in DOMAIN Head(assets)
  THEN <<Head(assets)["symbol"]>> \o SymbolsOf(Tail(assets))
  ELSE SymbolsOf(Tail(assets))

AssetsTry(vresp) ==
  LET sent == <<VendorCall("trading", "get_all_assets",
                           [asset_class |-> "CRYPTO", status |-> "ACTIVE"])>>
  IN  IF vresp.kind = "raise"
      THEN H(Raise("APIError", vresp.msg), sent, <<>>)
      ELSE IF vresp.kind = "none"
      THEN H(Raise("TypeError", "'NoneType' object is not iterable"),
             sent, <<>>)
      ELSE H(Ret([status |-> "success",
                  available_crypto_symbols |-> SymbolsOf(vresp.data)]),
             sent, <<>>)

get_supported_crypto_symbols(vresp) == Catch(AssetsTry(vresp))

(***************************************************************************)
(* Closing positions.                                                      *)
(***************************************************************************)
CloseAllTryRetry(cancel_orders, vresp) ==
  LET sent == <<VendorCall("trading", "close_all_positions",
                           [cancel_orders |-> cancel_orders])>>
  IN  IF vresp.kind = "raise"
      THEN H(Raise("APIError", vresp.msg), sent \o sent, <<>>)
      ELSE H(Ret([status |-> "success", closed_positions |-> vresp.data]),
             sent, <<>>)
CloseAllTry(cancel_orders, vresp) ==
  LET sent == <<VendorCall("trading", "close_all_positions",
                           [cancel_orders |-> cancel_orders])>>
  IN  IF vresp.kind = "raise"
      THEN H(Raise("APIError", vresp.msg), sent, <<>>)
      ELSE H(Ret([status |-> "success", closed_positions |-> vresp.data]),
             sent, <<>>)

panic_exit_keep_orders(vresp) == Catch(CloseAllTry(FALSE, vresp))
panic_exit(vresp) == Catch(CloseAllTry(TRUE, vresp))

close_all_positions(vresp) == Catch(CloseAllTry(FALSE, vresp))

(***************************************************************************)
(* Chart generation: runs only when SAVE_CHART_ARTIFACT is set and a tool  *)
(* context was passed.  fail = 2k-1 makes the rendering of the k-th chart  *)
(* raise and fail = 2k the saving of it; 0 lets every chart through.       *)
(***************************************************************************)
ChartOnFlagOnly(ch) == ch.flag
ChartOn(ch) == ch.flag /\ ch.ctx

NonNumeric == {"n/a"}

\* float(d[field]) of one dictionary
FloatOf(d, field) ==
  IF field \notin DOMAIN d THEN Raise("KeyError", field)
  ELSE IF d[field] \in NonNumeric
  THEN Raise("ValueError", "could not convert string to float")
  ELSE Ret(d[field])

RECURSIVE FloatFields(_, _)
\* float(d[f]) for each f of fields, in order
FloatFields(d, fields) ==
  IF fields = <<>> THEN Ret(<<>>)
  ELSE LET f == FloatOf(d, Head(fields))
       IN  IF f.exc THEN f ELSE FloatFields(d, Tail(fields))

RECURSIVE SymbolFloats(_, _)
\* {position["symbol"]: float(position[field]) for position in positions}
SymbolFloats(positions, field) ==
  IF positions = <<>> THEN Ret(<<>>)
  ELSE IF "symbol" \notin DOMAIN Head(positions)
  THEN Raise("KeyError", "symbol")
  ELSE LET f == FloatOf(Head(positions), field)
       IN  IF f.exc THEN f ELSE SymbolFloats(Tail(positions), field)

(***************************************************************************)
(* Open positions.                                                         *)
(***************************************************************************)
PositionReadFields ==
  <<"symbol", "exchange", "asset_class", "qty", "avg_entry_price", "side",
    "market_value", "cost_basis", "unrealized_pl", "unrealized_plpc",
    "unrealized_intraday_pl", "unrealized_intraday_plpc", "current_price",
    "lastday_price">>

NormalizePosition(position) ==
  IF FirstMissing(position, PositionReadFields) # ""
  THEN Raise("KeyError", FirstMissing(position, PositionReadFields))
  ELSE Ret([symbol |-> position["symbol"],
            exchange |-> position["exchange"],
            asset_class |-> position["asset_class"],
            quantity |-> position["qty"],
            average_entry_price |-> position["avg_entry_price"],
            side |-> position["side"],
            market_value |-> position["market_value"],
            cost_basis |-> position["cost_basis"],
            total_pnl_since_buy_in_cash |-> position["unrealized_pl"],
            total_pnl_since_buy_in_percentage |-> position["unrealized_plpc"],
            total_intraday_pnl_in_cash |-> position["unrealized_intraday_pl"],
            total_intraday_pnl_in_percentage |->
              position["unrealized_intraday_plpc"],
            current_price |-> position["current_price"],
            lastday_price |-> position["lastday_price"]])

RECURSIVE NormalizePositions(_)
NormalizePositions(positions) ==
  IF positions = <<>> THEN Ret(<<>>)
  ELSE LET n == NormalizePosition(Head(positions))
       IN  IF n.exc THEN n
           ELSE LET rest == NormalizePositions(Tail(positions))
                IN  IF rest.exc THEN rest
                    ELSE Ret(<<n.value>> \o rest.value)

\* the return statement of get_all_open_positions (lines 561-578)
PositionsReturn(positions, sent, arts) ==
  LET n == NormalizePositions(positions)
  IN  IF n.exc THEN H(n, sent, arts)
      ELSE H(Ret([status |-> "success", open_positions |-> n.value]),
             sent, arts)

\* the chart block of get_all_open_positions (lines 510-559) and what follows
PositionsCharts(ch, positions, sent) ==
  LET values == SymbolFloats(positions, "market_value")
      pnl == SymbolFloats(positions, "unrealized_plpc")
      pie == <<"open_positions_distribution">>
  IN  IF values.exc THEN H(values, sent, <<>>)
      ELSE IF ch.fail = 1
      THEN H(Raise("RuntimeError", "chart rendering failed"), sent, <<>>)
      ELSE IF ch.fail = 2
      THEN H(Raise("RuntimeError", "artifact not saved"), sent, <<>>)
      ELSE IF pnl.exc THEN H(pnl, sent, pie)
      ELSE IF ch.fail = 3
      THEN H(Raise("RuntimeError", "chart rendering failed"), sent, pie)
      ELSE IF ch.fail = 4
      THEN H(Raise("RuntimeError", "artifact not saved"), sent, pie)
      ELSE PositionsReturn(positions, sent, pie \o <<"open_positions_pnl">>)

PositionsTry(ch, vresp) ==
  LET sent == <<VendorCall("trading", "get_all_positions", EmptyDict)>>
  IN  IF vresp.kind = "raise"
      THEN H(Raise("APIError", vresp.msg), sent, <<>>)
      ELSE IF vresp.kind = "none"
      THEN H(Raise("TypeError", "'NoneType' object is not iterable"),
             sent, <<>>)
      ELSE IF ChartOn(ch) THEN PositionsCharts(ch, vresp.data, sent)
      ELSE PositionsReturn(vresp.data, sent, <<>>)

get_all_open_positions(ch, vresp) == Catch(PositionsTry(ch, vresp))

(***************************************************************************)
(* Account information.                                                    *)
(***************************************************************************)
AccountChartFields ==
  <<"cash", "equity", "long_market_value", "short_market_value">>

AccountReadFields ==
  <<"account_number", "status", "currency", "buying_power", "cash", "equity",
    "long_market_value", "short_market_value", "portfolio_value",
    "effective_buying_power", "non_marginable_buying_power",
    "options_buying_power", "last_equity">>

NormalizeAccount(account) ==
  IF FirstMissing(account, AccountReadFields) # ""
  THEN Raise("KeyError", FirstMissing(account, AccountReadFields))
  ELSE Ret([account_number |-> account["account_number"],
            status |-> account["status"],
            currency |-> account["currency"],
            buying_power |-> account["buying_power"],
            cash |-> account["cash"],
            equity |-> account["equity"],
            long_market_value |-> account["long_market_value"],
            short_market_value |-> account["short_market_value"],
            portfolio_value |-> account["portfolio_value"],
            buying_power_available |-> account["effective_buying_power"],
            non_marginable_buying_power |->
              account["non_marginable_buying_power"],
            options_buying_power |-> account["options_buying_power"],
            last_equity |-> account["last_equity"]])

\* the return statement of get_account_information (lines 690-709)
AccountReturn(account, sent, arts) ==
  LET n == NormalizeAccount(account)
  IN  IF n.exc THEN H(n, sent, arts)
      ELSE H(Ret([status |-> "success", account |-> n.value]), sent, arts)

\* the chart block of get_account_information (lines 664-687) and what follows
AccountChart(ch, account, sent) ==
  LET allocation == FloatFields(account, AccountChartFields)
  IN  IF allocation.exc THEN H(allocation, sent, <<>>)
      ELSE IF ch.fail = 1
      THEN H(Raise("RuntimeError", "chart rendering failed"), sent, <<>>)
      ELSE IF ch.fail = 2
      THEN H(Raise("RuntimeError", "artifact not saved"), sent, <<>>)
      ELSE AccountReturn(account, sent, <<"account_asset_allocation">>)

AccountTryCached(ch, vresp) ==
  AccountReturn(FullAccount, <<>>, <<>>)
AccountTry(ch, vresp) ==
  LET sent == <<VendorCall("trading", "get_account", EmptyDict)>>
  IN  IF vresp.kind = "raise"
      THEN H(Raise("APIError", vresp.msg), sent, <<>>)
      ELSE IF vresp.kind = "none"
      THEN H(Raise("TypeError", "'NoneType' object is not subscriptable"),
             sent, <<>>)
      ELSE IF ChartOn(ch) THEN AccountChart(ch, vresp.data, sent)
      ELSE AccountReturn(vresp.data, sent, <<>>)

get_account_information(ch, vresp) == Catch(AccountTry(ch, vresp))

(***************************************************************************)
(* Bars.  The data clients return a dictionary from symbol to bar list.    *)
(***************************************************************************)
\* symbol not in bars or not bars[symbol]
NoBarsKeyOnly(bars, symbol) == symbol \notin DOMAIN bars
NoBars(bars, symbol) == symbol \notin DOMAIN bars \/ bars[symbol] = <<>>

\* the data client and endpoint a request for bars goes to
CryptoBars(req) == VendorCall("crypto_data", "get_crypto_bars", req)
StockBars(req) == VendorCall("stock_data", "get_stock_bars", req)

IsCryptoNever(symbol) == FALSE
\* "/" in symbol
IsCrypto(symbol) == Contains(symbol, "/")

BarsCall(symbol, req) ==
  IF IsCrypto(symbol) THEN CryptoBars(req) ELSE StockBars(req)

(***************************************************************************)
(* Current price.                                                          *)
(***************************************************************************)
CurrentPriceRequest(symbol) ==
  IF IsCrypto(symbol)
  THEN [symbol_or_symbols |-> Str(symbol), timeframe |-> "Minute",
        limit |-> 1, feed |-> "none"]
  ELSE [symbol_or_symbols |-> Str(symbol), timeframe |-> "Minute",
        limit |-> 1, feed |-> "IEX"]

FirstBar(bar_list) == bar_list[1]
\* bars[symbol][-1]
LastBar(bar_list) == bar_list[Len(bar_list)]

CurrentPriceTry(symbol, vresp) ==
  IF symbol.ty # "str"
  THEN H(Raise("TypeError", "argument of type 'NoneType' is not iterable"),
         <<>>, <<>>)
  ELSE
    LET sent == <<BarsCall(symbol.s, CurrentPriceRequest(symbol.s))>>
        name == Str(symbol.s)
        bars == VendorBars(vresp, name)
    IN  IF vresp.kind = "raise"
        THEN H(Raise("APIError", vresp.msg), sent, <<>>)
        ELSE IF vresp.kind = "none"
        THEN H(Raise("TypeError",
                     "argument of type 'NoneType' is not iterable"),
               sent, <<>>)
        ELSE IF NoBars(bars, name)
        THEN H(Ret(ErrorResult("No price data found for " \o name \o ".")),
               sent, <<>>)
        ELSE IF bars[name] = <<>>
        THEN H(Raise("IndexError", "list index out of range"), sent, <<>>)
        ELSE LET last_bar == LastBar(bars[name])
                 missing == FirstMissing(last_bar, <<"c", "t">>)
             IN  IF missing # "" THEN H(Raise("KeyError", missing), sent, <<>>)
                 ELSE H(Ret([status |-> "success", symbol |-> name,
                             price |-> last_bar["c"],
                             timestamp |-> last_bar["t"]]),
                        sent, <<>>)

get_current_price(symbol, vresp) == Catch(CurrentPriceTry(symbol, vresp))

(***************************************************************************)
(* Today's candlesticks.                                                   *)
(***************************************************************************)
CandleReadFields == <<"t", "o", "h", "l", "c", "v", "vw", "n">>

NormalizeCandle(bar) ==
  IF FirstMissing(bar, CandleReadFields) # ""
  THEN Raise("KeyError", FirstMissing(bar, CandleReadFields))
  ELSE Ret([timestamp |-> bar["t"], open |-> bar["o"], high |-> bar["h"],
            low |-> bar["l"], close |-> bar["c"], bar_volume |-> bar["v"],
            volumn_weighted_average_price |-> bar["vw"],
            trade_count |-> bar["n"]])

RECURSIVE NormalizeCandles(_)
NormalizeCandles(bars) ==
  IF bars = <<>> THEN Ret(<<>>)
  ELSE LET n == NormalizeCandle(Head(bars))
       IN  IF n.exc THEN n
           ELSE LET rest == NormalizeCandles(Tail(bars))
                IN  IF rest.exc THEN rest
                    ELSE Ret(<<n.value>> \o rest.value)

\* the chart block of the candlestick operations and the return after it
CandleChart(ch, purpose, candles, sent) ==
  IF ~ChartOn(ch)
  THEN H(Ret([status |-> "success", candlestick_data |-> candles]),
         sent, <<>>)
  ELSE IF ch.fail = 1
  THEN H(Raise("RuntimeError", "chart rendering failed"), sent, <<>>)
  ELSE IF ch.fail = 2
  THEN H(Raise("RuntimeError", "artifact not saved"), sent, <<>>)
  ELSE H(Ret([status |-> "success", candlestick_data |-> candles]),
         sent, <<purpose>>)

\* the try block shared by the two candlestick operations, which differ in
\* the client they call, the feed and the artifact name
CandlesTry(call, purpose, symbol, ch, vresp) ==
  IF symbol.ty # "str"
  THEN H(Raise("ValidationError", "symbol_or_symbols"), <<>>, <<>>)
  ELSE
    LET sent == <<call>>
        name == Str(symbol.s)
        bars == VendorBars(vresp, name)
    IN  IF vresp.kind = "raise"
        THEN H(Raise("APIError", vresp.msg), sent, <<>>)
        ELSE IF vresp.kind = "none"
        THEN H(Raise("TypeError",
                     "argument of type 'NoneType' is not iterable"),
               sent, <<>>)
        ELSE IF NoBars(bars, name)
        THEN H(Ret(ErrorResult("No candlestick data found for symbol "
                               \o name \o ".")),
               sent, <<>>)
        ELSE LET n == NormalizeCandles(bars[name])
             IN  IF n.exc THEN H(n, sent, <<>>)
                 ELSE CandleChart(ch, purpose, n.value, sent)

get_today_candlestick_crypto_data(symbol, ch, vresp) ==
  Catch(CandlesTry(
    CryptoBars([symbol_or_symbols |-> Str(symbol.s), timeframe |-> "Hour",
                limit |-> 10000, feed |-> "none"]),
    "today_candlestick", symbol, ch, vresp))

get_today_candlestick_stock_data(symbol, ch, vresp) ==
  Catch(CandlesTry(
    StockBars([symbol_or_symbols |-> Str(symbol.s), timeframe |-> "Hour",
               limit |-> 10000, feed |-> "IEX"]),
    "candlestick", symbol, ch, vresp))

(***************************************************************************)
(* Historical prices.                                                      *)
(***************************************************************************)
\* tf_map.get(interval.lower(), TimeFrame.Day)
TimeFrameOfStrict(interval) ==
  IF lower(interval) = <<"m","i","n","u","t","e">> THEN "Minute"
  ELSE IF lower(interval) = <<"h","o","u","r">> THEN "Hour"
  ELSE IF lower(interval) = <<"d","a","y">> THEN "Day"
  ELSE "Unknown"
TimeFrameOf(interval) ==
  IF lower(interval) = <<"m","i","n","u","t","e">> THEN "Minute"
  ELSE IF lower(interval) = <<"h","o","u","r">> THEN "Hour"
  ELSE "Day"

Months ==
  {"01", "02", "03", "04", "05", "06", "07", "08", "09", "10", "11", "12"}

Days ==
  {"01", "02", "03", "04", "05", "06", "07", "08", "09", "10"}
    \cup {"11", "12", "13", "14", "15", "16", "17", "18", "19", "20"}
    \cup {"21", "22", "23", "24", "25", "26", "27", "28", "29", "30", "31"}

Years == {"2024", "2025"}

Times == {"00:00:00", "23:59:59"}

\* dt.datetime.fromisoformat accepts YYYY-MM-DD and YYYY-MM-DDTHH:MM:SS;
\* a date string is the sequence of its parts
IsIsoDate(d) ==
  /\ Len(d) \in {5, 7}
  /\ d[1] \in Years /\ d[2] = "-" /\ d[3] \in Months /\ d[4] = "-"
  /\ d[5] \in Days
  /\ Len(d) = 7 => (d[6] = "T" /\ d[7] \in Times)

fromisoformatLenient(d) ==
  Ret([year |-> "2025", month |-> "06", day |-> "01", time |-> "00:00:00"])
fromisoformat(d) ==
  IF d.ty # "str"
  THEN Raise("TypeError", "fromisoformat: argument must be str")
  ELSE IF ~IsIsoDate(d.s)
  THEN Raise("ValueError", "Invalid isoformat string: '" \o Str(d.s) \o "'")
  ELSE Ret([year |-> d.s[1], month |-> d.s[3], day |-> d.s[5],
            time |-> IF Len(d.s) = 7 THEN d.s[7] ELSE "00:00:00"])

RECURSIVE split(_, _)
\* s.split(sep)
split(s, sep) ==
  IF ~Contains(s, sep) THEN <<s>>
  ELSE LET i == CHOOSE k \in 1..Len(s) :
                  s[k] = sep /\ \A j \in 1..(k - 1) : s[j] # sep
       IN  <<SubSeq(s, 1, i - 1)>> \o split(SubSeq(s, i + 1, Len(s)), sep)

RECURSIVE strip(_)
\* s.strip()
strip(s) ==
  IF s = <<>> THEN s
  ELSE IF Head(s) = " " THEN strip(Tail(s))
  ELSE IF s[Len(s)] = " " THEN strip(SubSeq(s, 1, Len(s) - 1))
  ELSE s

SymbolListUnfiltered(symbols) ==
  LET parts == split(symbols, ",")
  IN  [i \in 1..Len(parts) |-> strip(parts[i])]
\* [s.strip() for s in symbols.split(",") if s.strip()]
SymbolList(symbols) ==
  LET parts == split(symbols, ",")
      stripped == [i \in 1..Len(parts) |-> strip(parts[i])]
  IN  SelectSeq(stripped, LAMBDA t : t # <<>>)

NaN == -1

\* pd.DataFrame(bars): the columns are the keys any bar has, and a bar
\* without a column holds NaN there
Columns(bars) == UNION {DOMAIN bars[i] : i \in 1..Len(bars)}

Cell(bar, column) == IF column \in DOMAIN bar THEN bar[column] ELSE NaN

\* pd.to_datetime(t).tz_convert("UTC").strftime("%Y-%m-%dT%H:%M:%SZ")
FormatTimestamp(t) == [date |-> t.date, hour |-> t.hour, frac |-> 0]

HistoricalColumns == <<"t", "o", "h", "l", "c", "v", "n">>

HistoricalRecord(bar) ==
  [timestamp |-> IF "t" \in DOMAIN bar THEN FormatTimestamp(bar["t"])
                 ELSE [date |-> "NaT", hour |-> 0, frac |-> 0],
   open |-> Cell(bar, "o"), high |-> Cell(bar, "h"), low |-> Cell(bar, "l"),
   close |-> Cell(bar, "c"), volume |-> Cell(bar, "v"),
   trade_count |-> Cell(bar, "n")]

\* lines 1024-1033: the records of one symbol's DataFrame
HistoricalDataFilled(bars) ==
  Ret([i \in 1..Len(bars) |-> HistoricalRecord(bars[i])])
HistoricalData(bars) ==
  LET missing == SelectSeq(HistoricalColumns,
                           LAMBDA col : col \notin Columns(bars))
  IN  IF "t" \notin Columns(bars) THEN Raise("KeyError", "t")
      ELSE IF missing # <<>>
      THEN Raise("KeyError", "['" \o Head(missing) \o "'] not in index")
      ELSE Ret([i \in 1..Len(bars) |-> HistoricalRecord(bars[i])])

HistoricalRequest(symbol, start_dt, end_dt, tf) ==
  IF IsCrypto(symbol)
  THEN [symbol_or_symbols |-> Str(symbol), start |-> start_dt,
        end |-> end_dt, timeframe |-> tf, limit |-> 10000, feed |-> "none"]
  ELSE [symbol_or_symbols |-> Str(symbol), start |-> start_dt,
        end |-> end_dt, timeframe |-> tf, limit |-> 10000, feed |-> "IEX"]

RECURSIVE HistoricalLoop(_, _, _, _, _, _, _, _)
\* the for loop over symbol_list from its i-th symbol on; vresps[k] is the
\* vendor's response to the k-th request of the invocation
HistoricalLoop(symbol_list, i, results, sent, vresps, start_dt, end_dt, tf) ==
  IF i > Len(symbol_list) THEN H(Ret(results), sent, <<>>)
  ELSE
    LET symbol == symbol_list[i]
        name == Str(symbol)
        vresp == vresps[i]
        sent2 == Append(sent,
                   BarsCall(symbol,
                            HistoricalRequest(symbol, start_dt, end_dt, tf)))
        bars == VendorBars(vresp, name)
    IN  IF vresp.kind = "raise"
        THEN H(Raise("APIError", vresp.msg), sent2, <<>>)
        ELSE IF vresp.kind = "none"
        THEN H(Raise("TypeError",
                     "argument of type 'NoneType' is not iterable"),
               sent2, <<>>)
        ELSE IF NoBars(bars, name)
        THEN HistoricalLoop(symbol_list, i + 1,
               (name :> ErrorResult("No historical data found for "
                                    \o name \o "."))
                 @@ results,
               sent2, vresps, start_dt, end_dt, tf)
        ELSE LET data == HistoricalData(bars[name])
             IN  IF data.exc THEN H(data, sent2, <<>>)
                 ELSE HistoricalLoop(symbol_list, i + 1,
                        (name :> [status |-> "success", symbol |-> name,
                                  historical_data |-> data.value])
                          @@ results,
                        sent2, vresps, start_dt, end_dt, tf)

HistoricalTry(symbols, start, end, interval, vresps) ==
  IF interval.ty # "str"
  THEN H(Raise("AttributeError", "object has no attribute 'lower'"),
         <<>>, <<>>)
  ELSE IF fromisoformat(start).exc THEN H(fromisoformat(start), <<>>, <<>>)
  ELSE IF fromisoformat(end).exc THEN H(fromisoformat(end), <<>>, <<>>)
  ELSE IF symbols.ty # "str"
  THEN H(Raise("AttributeError", "object has no attribute 'split'"),
         <<>>, <<>>)
  ELSE HistoricalLoop(SymbolList(symbols.s), 1, EmptyDict, <<>>, vresps,
                      fromisoformat(start).value, fromisoformat(end).value,
                      TimeFrameOf(interval.s))

get_historical_prices(symbols, start, end, interval, vresps) ==
  Catch(HistoricalTry(symbols, start, end, interval, vresps))

\* how many vendor requests an invocation can make at most
HistoricalRequests(symbols, start, end, interval) ==
  IF \/ interval.ty # "str" \/ symbols.ty # "str"
     \/ fromisoformat(start).exc \/ fromisoformat(end).exc
  THEN 0
  ELSE Len(SymbolList(symbols.s))

(***************************************************************************)
(* The two wrappers of get_historical_prices.                              *)
(***************************************************************************)
\* "symbol in result": the keys of result are strings
InResult(symbol, result) ==
  symbol.ty = "str" /\ Str(symbol.s) \in DOMAIN result

\* the day before the clock's date, as isoformat() renders its two ends
Yesterday == "2025-06-30"
YesterdayStart == PyStr(<<"2025", "-", "06", "-", "30", "T", "00:00:00">>)
YesterdayEnd == PyStr(<<"2025", "-", "06", "-", "30", "T", "23:59:59">>)

\* f"{symbol}"
FormatSymbol(symbol) == IF symbol.ty = "str" THEN Str(symbol.s) ELSE "None"

YesterdayTry(symbol, vresps) ==
  LET nested == get_historical_prices(symbol, YesterdayStart, YesterdayEnd,
                                      PyStr(<<"d","a","y">>), vresps)
      result == nested.out.value
  IN  IF InResult(symbol, result)
         /\ result[Str(symbol.s)]["status"] = "success"
      THEN H(Ret([status |-> "success", symbol |-> Str(symbol.s),
                  yesterdays_price_action |->
                    result[Str(symbol.s)]["historical_data"]]),
             nested.calls, <<>>)
      ELSE H(Ret(ErrorResult("No price action found for "
                             \o FormatSymbol(symbol) \o " on "
                             \o Yesterday \o ".")),
             nested.calls, <<>>)

get_yesterdays_price_action(symbol, vresps) ==
  Catch(YesterdayTry(symbol, vresps))

\* the chart block of plot_price_action (lines 1108-1136)
PlotChart(ch, symbol, start, end, sent) ==
  IF ~ChartOn(ch)
  THEN H(Ret([status |-> "success",
              message |->
                "Chart plotting is disabled or no tool context provided."]),
         sent, <<>>)
  ELSE IF ch.fail = 1
  THEN H(Raise("RuntimeError", "chart rendering failed"), sent, <<>>)
  ELSE IF ch.fail = 2
  THEN H(Raise("RuntimeError", "artifact not saved"), sent, <<>>)
  ELSE LET filename == "price_action_" \o Str(symbol.s) \o "_"
                         \o Str(SubSeq(start.s, 1, 5)) \o "_"
                         \o Str(SubSeq(end.s, 1, 5)) \o ".png"
       IN  H(Ret([status |-> "success",
                  message |-> "Chart saved as " \o filename \o "."]),
             sent, <<"price_action">>)

PlotTryForwarding(symbol, start, end, interval, ch, vresps) ==
  LET nested == get_historical_prices(symbol, start, end, interval, vresps)
      result == nested.out.value
  IN  IF "status" \in DOMAIN result THEN H(Ret(result), nested.calls, <<>>)
      ELSE IF ~InResult(symbol, result)
         \/ result[Str(symbol.s)]["status"] # "success"
      THEN H(Ret(ErrorResult("No historical data found for "
                             \o FormatSymbol(symbol) \o ".")),
             nested.calls, <<>>)
      ELSE IF result[Str(symbol.s)]["historical_data"] = <<>>
      THEN H(Ret(ErrorResult("No data to plot for "
                             \o FormatSymbol(symbol) \o ".")),
             nested.calls, <<>>)
      ELSE PlotChart(ch, symbol, start, end, nested.calls)
PlotTry(symbol, start, end, interval, ch, vresps) ==
  LET nested == get_historical_prices(symbol, start, end, interval, vresps)
      result == nested.out.value
  IN  IF ~InResult(symbol, result)
         \/ result[Str(symbol.s)]["status"] # "success"
      THEN H(Ret(ErrorResult("No historical data found for "
                             \o FormatSymbol(symbol) \o ".")),
             nested.calls, <<>>)
      ELSE IF result[Str(symbol.s)]["historical_data"] = <<>>
      THEN H(Ret(ErrorResult("No data to plot for "
                             \o FormatSymbol(symbol) \o ".")),
             nested.calls, <<>>)
      ELSE PlotChart(ch, symbol, start, end, nested.calls)

plot_price_action_validating(symbol, start, end, interval, ch, vresps) ==
  IF interval.ty = "str"
     /\ lower(interval.s) \notin {<<"m","i","n","u","t","e">>,
                                  <<"h","o","u","r">>, <<"d","a","y">>}
  THEN H(Ret(ErrorResult("Unknown interval.")), <<>>, <<>>)
  ELSE Catch(PlotTry(symbol, start, end, interval, ch, vresps))
plot_price_action(symbol, start, end, interval, ch, vresps) ==
  Catch(PlotTry(symbol, start, end, interval, ch, vresps))

(***************************************************************************)
(* News.                                                                   *)
(***************************************************************************)
\* article.get(field, "")
Get(d, field) == IF field \in DOMAIN d THEN d[field] ELSE ""

NewsSummaryHeadlined(news) ==
  SelectSeq([i \in 1..Len(news) |->
               [headline |-> Get(news[i], "headline"),
                summary |-> Get(news[i], "summary"),
                source |-> Get(news[i], "source"),
                created_at |-> Get(news[i], "created_at")]],
            LAMBDA a : a.headline # "")
NewsSummary(news) ==
  [i \in 1..Len(news) |->
     [headline |-> Get(news[i], "headline"),
      summary |-> Get(news[i], "summary"),
      source |-> Get(news[i], "source"),
      created_at |-> Get(news[i], "created_at")]]

NoNewsMessage(symbol) ==
  "There is now news found for symbol " \o symbol
    \o ". May be it is an invalid symbol " \o symbol
    \o ". Please check again."

NewsTry(symbol, vresp) ==
  LET sent == <<VendorCall("news", "get_news",
                           [symbols |-> Str(symbol), sort |-> "desc",
                            limit |-> 10])>>
  IN  IF vresp.kind = "raise"
      THEN H(Raise("APIError", vresp.msg), sent, <<>>)
      ELSE IF vresp.kind = "none"
      THEN H(Raise("TypeError", "'NoneType' object is not subscriptable"),
             sent, <<>>)
      ELSE IF "news" \notin DOMAIN vresp.data
      THEN H(Raise("KeyError", "news"), sent, <<>>)
      ELSE IF vresp.data["news"] = <<>>
      THEN H(Ret(ErrorResult(NoNewsMessage(Str(symbol)))), sent, <<>>)
      ELSE IF NewsSummary(vresp.data["news"]) = <<>>
      THEN H(Ret([status |-> "error", news |-> NoNewsMessage(Str(symbol))]),
             sent, <<>>)
      ELSE H(Ret([status |-> "success",
                  news |-> NewsSummary(vresp.data["news"])]),
             sent, <<>>)

fetch_today_news_for_symbol(symbol, vresp) == Catch(NewsTry(symbol, vresp))

(***************************************************************************)
(* The tool registry and the agent's tool list.                            *)
(***************************************************************************)
\* FunctionTool(func=f): the tool is named after f and calls f
FunctionTool(f) == [name |-> f, func |-> f]

toolsWithoutPanicExit ==
  <<FunctionTool("get_account_information"),
    FunctionTool("get_all_open_positions"),
    FunctionTool("get_open_orders"),
    FunctionTool("get_closed_orders"),
    FunctionTool("get_all_orders"),
    FunctionTool("place_stock_market_order"),
    FunctionTool("place_crypto_market_order"),
    FunctionTool("get_supported_crypto_symbols"),
    FunctionTool("fetch_today_news_for_symbol"),
    FunctionTool("cancel_order_by_id"),
    FunctionTool("close_all_positions"),
    FunctionTool("close_all_positions"),
    FunctionTool("get_today_candlestick_crypto_data"),
    FunctionTool("get_today_candlestick_stock_data"),
    FunctionTool("get_current_price"),
    FunctionTool("get_historical_prices"),
    FunctionTool("get_yesterdays_price_action"),
    FunctionTool("plot_price_action")>>
tools ==
  <<FunctionTool("get_account_information"),
    FunctionTool("get_all_open_positions"),
    FunctionTool("get_open_orders"),
    FunctionTool("get_closed_orders"),
    FunctionTool("get_all_orders"),
    FunctionTool("place_stock_market_order"),
    FunctionTool("place_crypto_market_order"),
    FunctionTool("get_supported_crypto_symbols"),
    FunctionTool("fetch_today_news_for_symbol"),
    FunctionTool("cancel_order_by_id"),
    FunctionTool("panic_exit"),
    FunctionTool("close_all_positions"),
    FunctionTool("get_today_candlestick_crypto_data"),
    FunctionTool("get_today_candlestick_stock_data"),
    FunctionTool("get_current_price"),
    FunctionTool("get_historical_prices"),
    FunctionTool("get_yesterdays_price_action"),
    FunctionTool("plot_price_action")>>

other_tools == <<FunctionTool("get_current_date")>>

all_tools == tools \o other_tools

(***************************************************************************)
(* Inputs the dispatcher can pass.                                         *)
(***************************************************************************)
Symbols == {<<"A">>, <<"B", "/", "U">>, <<" ", "A">>, <<>>}

Quantities == {1, 2}

Sides ==
  {PyStr(<<"b","u","y">>), PyStr(<<"B","U","Y">>), PyStr(<<"B","u","y">>),
   PyStr(<<"s","e","l","l">>), PyStr(<<"S","E","L","L">>),
   PyStr(<<"s","E","l","L">>), PyStr(<<"h","o","l","d">>),
   PyStr(<<"b","u","y","s">>), PyStr(<<>>), PyNone, PyInt}

Ctors == {"ok", "raise"}

\* the chart flag, the presence of a tool context, and how charting goes
ChartEnvs(charts) ==
  {ch \in [flag : BOOLEAN, ctx : BOOLEAN, fail : 0..(2 * charts)] :
     ChartOn(ch) \/ ch.fail = 0}

SymbolArgs == {PyStr(s) : s \in Symbols} \cup {PyNone}

SymbolsArgs ==
  {PyStr(<<"A">>), PyStr(<<"B", "/", "U">>),
   PyStr(<<"A", ",", "B", "/", "U">>),
   PyStr(<<" ", "A", ",", ",", "A", " ">>),
   PyStr(<<>>), PyStr(<<" ", ",">>), PyNone}

Intervals ==
  {PyStr(<<"d","a","y">>), PyStr(<<"H","o","u","r">>),
   PyStr(<<"M","I","N","U","T","E">>), PyStr(<<"w","e","e","k">>), PyNone}

StartArgs ==
  {PyStr(<<"2025", "-", "06", "-", "01">>),
   PyStr(<<"2025", "-", "06", "-", "01", "T", "00:00:00">>),
   PyStr(<<"06", "/", "01", "/", "2025">>)}

EndArgs ==
  {PyStr(<<"2025", "-", "06", "-", "30">>),
   PyStr(<<"2025", "-", "13", "-", "30">>)}

OrderIds ==
  {[ty |-> "str", v |-> "o-1"], [ty |-> "str", v |-> "o-2"],
   [ty |-> "int", v |-> 7]}

(***************************************************************************)
(* The state machine.                                                      *)
(***************************************************************************)
NoArgs == EmptyDict
NoRet == [raised |-> FALSE, value |-> EmptyDict, etype |-> ""]

\* the asyncio tasks of the event loop
Tasks == {"t1", "t2"}

IdleTask ==
  [pc |-> "idle", op |-> "none", args |-> NoArgs, env |-> EmptyDict,
   calls |-> <<>>, arts |-> <<>>, ret |-> NoRet, stage |-> 0,
   awaiting |-> "none", suspensions |-> 0]

\* the module-level variable the tools read, as the import of a deployment
\* with charts enabled sets it.  Spec follows one invocation in any
\* deployment and draws the flag with the invocation's environment;
\* ConcSpec reads it from here.
ImportedGlobals == [SAVE_CHART_ARTIFACT |-> TRUE]

\* preview_and_trade before its first prompt: nothing read, nothing sent
NotStarted ==
  [pc |-> "prompt_symbols", symbols_in |-> <<>>, symbols |-> <<>>,
   start_str |-> <<>>, end_str |-> <<>>, fetched |-> {}, choice_in |-> <<>>,
   buy_symbol_in |-> <<>>, buy_symbol |-> "", qty_in |-> <<>>, qty |-> "",
   steps |-> <<>>, sent |-> <<>>, printed |-> ""]

Init ==
  /\ pc = "idle"
  /\ op = "none"
  /\ args = NoArgs
  /\ env = EmptyDict
  /\ calls = <<>>
  /\ ret = NoRet
  /\ artifacts = <<>>
  /\ tasks = [t \in Tasks |-> IdleTask]
  /\ globals = ImportedGlobals
  /\ submitted = <<>>
  /\ dispatched = <<>>
  /\ run = NotStarted

\* the invoked tool ran to its return (or to an escaping exception)
Finish(o, a, e, h) ==
  /\ UNCHANGED <<tasks, globals, submitted, dispatched, run>>
  /\ pc' = "returned"
  /\ op' = o
  /\ args' = a
  /\ env' = e
  /\ calls' = h.calls
  /\ artifacts' = h.arts
  /\ ret' = IF h.out.exc
            THEN [raised |-> TRUE, value |-> EmptyDict, etype |-> h.out.etype]
            ELSE [raised |-> FALSE, value |-> h.out.value, etype |-> ""]

Call_place_stock_market_order ==
  /\ pc = "idle"
  /\ \E symbol \in Symbols, quantity \in Quantities, side \in Sides,
        ctor \in Ctors, vresp \in SubmitResponses :
       Finish("place_stock_market_order",
              [symbol |-> symbol, quantity |-> quantity, side |-> side],
              [ctor |-> ctor, vendor |-> <<vresp>>],
              place_stock_market_order(symbol, quantity, side, ctor, vresp))

Call_place_crypto_market_order ==
  /\ pc = "idle"
  /\ \E symbol \in Symbols, quantity \in Quantities, side \in Sides,
        ctor \in Ctors, vresp \in SubmitResponses :
       Finish("place_crypto_market_order",
              [symbol |-> symbol, quantity |-> quantity, side |-> side],
              [ctor |-> ctor, vendor |-> <<vresp>>],
              place_crypto_market_order(symbol, quantity, side, ctor, vresp))

Call_get_all_orders ==
  /\ pc = "idle"
  /\ \E vresp \in OrderListResponses :
       Finish("get_all_orders", NoArgs, [vendor |-> <<vresp>>],
              get_all_orders(vresp))

Call_get_open_orders ==
  /\ pc = "idle"
  /\ \E vresp \in OrderListResponses :
       Finish("get_open_orders", NoArgs, [vendor |-> <<vresp>>],
              get_open_orders(vresp))

Call_get_closed_orders ==
  /\ pc = "idle"
  /\ \E vresp \in OrderListResponses :
       Finish("get_closed_orders", NoArgs, [vendor |-> <<vresp>>],
              get_closed_orders(vresp))

Call_cancel_order_by_id ==
  /\ pc = "idle"
  /\ \E order_id \in OrderIds, vresp \in CancelResponses :
       Finish("cancel_order_by_id", [order_id |-> order_id],
              [vendor |-> <<vresp>>], cancel_order_by_id(order_id, vresp))

Call_get_supported_crypto_symbols ==
  /\ pc = "idle"
  /\ \E vresp \in AssetListResponses :
       Finish("get_supported_crypto_symbols", NoArgs, [vendor |-> <<vresp>>],
              get_supported_crypto_symbols(vresp))

Call_panic_exit ==
  /\ pc = "idle"
  /\ \E vresp \in CloseResponses :
       Finish("panic_exit", NoArgs, [vendor |-> <<vresp>>], panic_exit(vresp))

Call_close_all_positions ==
  /\ pc = "idle"
  /\ \E vresp \in CloseResponses :
       Finish("close_all_positions", NoArgs, [vendor |-> <<vresp>>],
              close_all_positions(vresp))

Call_get_all_open_positions ==
  /\ pc = "idle"
  /\ \E ch \in ChartEnvs(2), vresp \in PositionListResponses :
       Finish("get_all_open_positions", NoArgs,
              [chart |-> ch, vendor |-> <<vresp>>],
              get_all_open_positions(ch, vresp))

Call_get_account_information ==
  /\ pc = "idle"
  /\ \E ch \in ChartEnvs(1), vresp \in AccountResponses :
       Finish("get_account_information", NoArgs,
              [chart |-> ch, vendor |-> <<vresp>>],
              get_account_information(ch, vresp))

Call_get_current_price ==
  /\ pc = "idle"
  /\ \E symbol \in SymbolArgs, vresp \in BarsResponses :
       Finish("get_current_price", [symbol |-> symbol],
              [vendor |-> <<vresp>>], get_current_price(symbol, vresp))

Call_get_today_candlestick_crypto_data ==
  /\ pc = "idle"
  /\ \E symbol \in SymbolArgs, ch \in ChartEnvs(1), vresp \in BarsResponses :
       Finish("get_today_candlestick_crypto_data", [symbol |-> symbol],
              [chart |-> ch, vendor |-> <<vresp>>],
              get_today_candlestick_crypto_data(symbol, ch, vresp))

Call_get_today_candlestick_stock_data ==
  /\ pc = "idle"
  /\ \E symbol \in SymbolArgs, ch \in ChartEnvs(1), vresp \in BarsResponses :
       Finish("get_today_candlestick_stock_data", [symbol |-> symbol],
              [chart |-> ch, vendor |-> <<vresp>>],
              get_today_candlestick_stock_data(symbol, ch, vresp))

Call_get_historical_prices ==
  /\ pc = "idle"
  /\ \E symbols \in SymbolsArgs, start \in StartArgs, end \in EndArgs,
        interval \in Intervals :
       \E vresps \in [1..HistoricalRequests(symbols, start, end, interval)
                        -> BarsResponses] :
         Finish("get_historical_prices",
                [symbols |-> symbols, start |-> start, end |-> end,
                 interval |-> interval],
                [vendor |-> vresps],
                get_historical_prices(symbols, start, end, interval, vresps))

Call_get_yesterdays_price_action ==
  /\ pc = "idle"
  /\ \E symbol \in SymbolArgs :
       \E vresps \in [1..HistoricalRequests(symbol, YesterdayStart,
                                            YesterdayEnd,
                                            PyStr(<<"d","a","y">>))
                        -> BarsResponses] :
         Finish("get_yesterdays_price_action", [symbol |-> symbol],
                [vendor |-> vresps],
                get_yesterdays_price_action(symbol, vresps))

Call_plot_price_action ==
  /\ pc = "idle"
  /\ \E symbol \in SymbolArgs, start \in StartArgs, end \in EndArgs,
        interval \in Intervals, ch \in ChartEnvs(1) :
       \E vresps \in [1..HistoricalRequests(symbol, start, end, interval)
                        -> BarsResponses] :
         Finish("plot_price_action",
                [symbol |-> symbol, start |-> start, end |-> end,
                 interval |-> interval],
                [chart |-> ch, vendor |-> vresps],
                plot_price_action(symbol, start, end, interval, ch, vresps))

Call_fetch_today_news_for_symbol ==
  /\ pc = "idle"
  /\ \E symbol \in Symbols, vresp \in NewsResponses :
       Finish("fetch_today_news_for_symbol", [symbol |-> PyStr(symbol)],
              [vendor |-> <<vresp>>],
              fetch_today_news_for_symbol(symbol, vresp))

\* the agent takes the result and is ready to dispatch the next tool
AgentReceive ==
  /\ pc = "returned"
  /\ pc' = "idle"
  /\ op' = "none"
  /\ args' = NoArgs
  /\ env' = EmptyDict
  /\ calls' = <<>>
  /\ ret' = NoRet
  /\ artifacts' = <<>>
  /\ UNCHANGED <<tasks, globals, submitted, dispatched, run>>

Next ==
  \/ Call_place_stock_market_order
  \/ Call_place_crypto_market_order
  \/ Call_get_all_orders
  \/ Call_get_open_orders
  \/ Call_get_closed_orders
  \/ Call_cancel_order_by_id
  \/ Call_get_supported_crypto_symbols
  \/ Call_panic_exit
  \/ Call_close_all_positions
  \/ Call_get_all_open_positions
  \/ Call_get_account_information
  \/ Call_get_current_price
  \/ Call_get_today_candlestick_crypto_data
  \/ Call_get_today_candlestick_stock_data
  \/ Call_get_historical_prices
  \/ Call_get_yesterdays_price_action
  \/ Call_plot_price_action
  \/ Call_fetch_today_news_for_symbol
  \/ AgentReceive

Spec == Init /\ [][Next]_vars

(***************************************************************************)
(* Concurrent invocations.  The event loop runs a task from its entry, or  *)
(* from the await it was suspended at, up to the next await that can       *)
(* suspend it or to its return.  The vendor SDK calls are plain calls, so  *)
(* the response is back before anything else runs; a coroutine awaited     *)
(* directly suspends only where its own body does, which neither           *)
(* _place_market_order nor get_historical_prices ever does; what can       *)
(* suspend a task is await tool_context.save_artifact(...).                *)
(***************************************************************************)
\* what the dispatcher passes and the vendor answers in this specification
ConcSides == {PyStr(<<"b","u","y">>), PyStr(<<"h","o","l","d">>)}

ConcSubmitResponses == {VRaise("forbidden"), VOk(FullOrder(1))}

ConcPositionResponses == {VRaise("forbidden"), VOk(<<FullPosition("AAPL")>>)}

ConcAccountResponses == {VRaise("forbidden"), VOk(FullAccount)}

ConcBarsResponses ==
  {VRaise("forbidden"),
   VOk([key |-> "same", bars |-> <<Bar(10, Timestamp(13, 0))>>])}

\* the chart environment of an invocation: the flag is the module's
ConcChartEnvs(charts) ==
  {ch \in ChartEnvs(charts) : ch.flag = globals.SAVE_CHART_ARTIFACT}

\* what the caller of a handler gets: its return value or its exception
Outcome(h) ==
  IF h.out.exc
  THEN [raised |-> TRUE, value |-> EmptyDict, etype |-> h.out.etype]
  ELSE [raised |-> FALSE, value |-> h.out.value, etype |-> ""]

\* the task ran to its return
TaskDone(o, a, e, h, n) ==
  [pc |-> "returned", op |-> o, args |-> a, env |-> e, calls |-> h.calls,
   arts |-> h.arts, ret |-> Outcome(h), stage |-> 0, awaiting |-> "none",
   suspensions |-> n]

\* the task reached await tool_context.save_artifact(...) for its stage-th
\* chart; its locals are the vendor's payload, the calls made and the
\* artifacts saved so far
TaskAwait(o, a, e, sent, arts, stage, n) ==
  [pc |-> "suspended", op |-> o, args |-> a, env |-> e, calls |-> sent,
   arts |-> arts, ret |-> NoRet, stage |-> stage,
   awaiting |-> "save_artifact", suspensions |-> n + 1]

\* get_all_open_positions from its entry to the first await it reaches
BeginPositions(e) ==
  IF /\ e.vendor[1].kind = "ok"
     /\ ChartOn(e.chart)
     /\ ~SymbolFloats(e.vendor[1].data, "market_value").exc
     /\ e.chart.fail # 1
  THEN TaskAwait("get_all_open_positions", NoArgs, e,
                 <<VendorCall("trading", "get_all_positions", EmptyDict)>>,
                 <<>>, 1, 0)
  ELSE TaskDone("get_all_open_positions", NoArgs, e,
                get_all_open_positions(e.chart, e.vendor[1]), 0)

\* get_all_open_positions from the await it was suspended at (lines 528 and
\* 553) to the next one or to its return
ResumePositions(task) ==
  LET ch == task.env.chart
      positions == task.env.vendor[1].data
      pnl == SymbolFloats(positions, "unrealized_plpc")
      pie == <<"open_positions_distribution">>
      done(h) == TaskDone(task.op, task.args, task.env, Catch(h),
                          task.suspensions)
  IN  IF task.stage = 1
      THEN IF ch.fail = 2
           THEN done(H(Raise("RuntimeError", "artifact not saved"),
                       task.calls, <<>>))
           ELSE IF pnl.exc THEN done(H(pnl, task.calls, pie))
           ELSE IF ch.fail = 3
           THEN done(H(Raise("RuntimeError", "chart rendering failed"),
                       task.calls, pie))
           ELSE TaskAwait(task.op, task.args, task.env, task.calls, pie, 2,
                          task.suspensions)
      ELSE IF ch.fail = 4
           THEN done(H(Raise("RuntimeError", "artifact not saved"),
                       task.calls, pie))
           ELSE done(PositionsReturn(positions, task.calls,
                                     pie \o <<"open_positions_pnl">>))

\* get_account_information from its entry to the await it reaches
BeginAccount(e) ==
  IF /\ e.vendor[1].kind = "ok"
     /\ ChartOn(e.chart)
     /\ ~FloatFields(e.vendor[1].data, AccountChartFields).exc
     /\ e.chart.fail # 1
  THEN TaskAwait("get_account_information", NoArgs, e,
                 <<VendorCall("trading", "get_account", EmptyDict)>>,
                 <<>>, 1, 0)
  ELSE TaskDone("get_account_information", NoArgs, e,
                get_account_information(e.chart, e.vendor[1]), 0)

\* get_account_information from its await (line 681) to its return
ResumeAccount(task) ==
  IF task.env.chart.fail = 2
  THEN TaskDone(task.op, task.args, task.env,
                Catch(H(Raise("RuntimeError", "artifact not saved"),
                        task.calls, <<>>)),
                task.suspensions)
  ELSE TaskDone(task.op, task.args, task.env,
                Catch(AccountReturn(task.env.vendor[1].data, task.calls,
                                    <<"account_asset_allocation">>)),
                task.suspensions)

\* the orders the vendor holds after the calls of one more step: every
\* submit_order call it receives creates an order
SubmittedOnce(log, sent) ==
  log \o SelectSeq(sent,
           LAMBDA c : /\ c.endpoint = "submit_order"
                      /\ \A i \in 1..Len(log) : log[i] # c)
Submitted(log, sent) ==
  log \o SelectSeq(sent, LAMBDA c : c.endpoint = "submit_order")

\* the module-level variables after a step of a handler: no handler has a
\* global statement or assigns a module-level name
GlobalsAfterStepCleared(g) == [g EXCEPT !.SAVE_CHART_ARTIFACT = FALSE]
GlobalsAfterStep(g) == g

\* the event loop starts the coroutine of a dispatched invocation in task t
Start(t, task) ==
  /\ tasks[t].pc = "idle"
  /\ Len(dispatched) < MaxInvocations
  /\ tasks' = [tasks EXCEPT ![t] = task]
  /\ dispatched' = Append(dispatched, [op |-> task.op, args |-> task.args])
  /\ submitted' = Submitted(submitted, task.calls)
  /\ globals' = GlobalsAfterStep(globals)
  /\ UNCHANGED <<pc, op, args, env, calls, ret, artifacts, run>>

Start_place_stock_market_order(t) ==
  \E side \in ConcSides, vresp \in ConcSubmitResponses :
    Start(t, TaskDone("place_stock_market_order",
                      [symbol |-> <<"A">>, quantity |-> 1, side |-> side],
                      [ctor |-> "ok", vendor |-> <<vresp>>],
                      place_stock_market_order(<<"A">>, 1, side, "ok", vresp),
                      0))

Start_place_crypto_market_order(t) ==
  \E side \in ConcSides, vresp \in ConcSubmitResponses :
    Start(t, TaskDone("place_crypto_market_order",
                      [symbol |-> <<"A">>, quantity |-> 1, side |-> side],
                      [ctor |-> "ok", vendor |-> <<vresp>>],
                      place_crypto_market_order(<<"A">>, 1, side, "ok",
                                                vresp),
                      0))

Start_get_all_open_positions(t) ==
  \E ch \in ConcChartEnvs(2), vresp \in ConcPositionResponses :
    Start(t, BeginPositions([chart |-> ch, vendor |-> <<vresp>>]))

Start_get_account_information(t) ==
  \E ch \in ConcChartEnvs(1), vresp \in ConcAccountResponses :
    Start(t, BeginAccount([chart |-> ch, vendor |-> <<vresp>>]))

Start_get_yesterdays_price_action(t) ==
  \E vresp \in ConcBarsResponses :
    Start(t, TaskDone("get_yesterdays_price_action",
                      [symbol |-> PyStr(<<"A">>)], [vendor |-> <<vresp>>],
                      get_yesterdays_price_action(PyStr(<<"A">>), <<vresp>>),
                      0))

\* save_artifact completed or raised: the event loop resumes task t
Resume(t) ==
  /\ tasks[t].pc = "suspended"
  /\ tasks' = [tasks EXCEPT ![t] =
                 IF tasks[t].op = "get_all_open_positions"
                 THEN ResumePositions(tasks[t])
                 ELSE ResumeAccount(tasks[t])]
  /\ globals' = GlobalsAfterStep(globals)
  /\ UNCHANGED <<submitted, dispatched>>
  /\ UNCHANGED <<pc, op, args, env, calls, ret, artifacts, run>>

\* the agent takes the result of task t
Collect(t) ==
  /\ tasks[t].pc = "returned"
  /\ tasks' = [tasks EXCEPT ![t] = IdleTask]
  /\ UNCHANGED <<globals, submitted, dispatched>>
  /\ UNCHANGED <<pc, op, args, env, calls, ret, artifacts, run>>

ConcNext ==
  \/ \E t \in Tasks : Start_place_stock_market_order(t)
  \/ \E t \in Tasks : Start_place_crypto_market_order(t)
  \/ \E t \in Tasks : Start_get_all_open_positions(t)
  \/ \E t \in Tasks : Start_get_account_information(t)
  \/ \E t \in Tasks : Start_get_yesterdays_price_action(t)
  \/ \E t \in Tasks : Resume(t)
  \/ \E t \in Tasks : Collect(t)

ConcSpec == Init /\ [][ConcNext]_vars

(***************************************************************************)
(* The interactive flow preview_and_trade of Buy_Function.py: one run of   *)
(* the script, one step per group of prompts the user answers.  The run    *)
(* record keeps what the user typed (symbols_in, choice_in, buy_symbol_in, *)
(* qty_in), the locals computed from it, the steps passed so far, the      *)
(* requests sent to the trading client and the last line printed.          *)
(***************************************************************************)
UpperChar(c) ==
  IF \E i \in 1..Len(LowerAlpha) : LowerAlpha[i] = c
  THEN UpperAlpha[CHOOSE i \in 1..Len(LowerAlpha) : LowerAlpha[i] = c]
  ELSE c

\* str.upper()
upper(s) == [i \in 1..Len(s) |-> UpperChar(s[i])]

\* s.replace(" ", "")
RemoveSpaces(s) == SelectSeq(s, LAMBDA c : c # " ")

\* line 16: input(...).strip().upper().replace(" ", "").split(',')
EnteredSymbols(typed) ==
  LET parts == split(RemoveSpaces(upper(strip(typed))), ",")
  IN  [i \in 1..Len(parts) |-> Str(parts[i])]

\* %m and %d also match a month or a day written without its leading zero
Unpadded == {"1", "2", "3", "4", "5", "6", "7", "8", "9"}

\* datetime.strptime(s, "%Y-%m-%d"): nothing may follow the day
strptime(s) ==
  IF /\ Len(s) = 5 /\ s[2] = "-" /\ s[4] = "-"
     /\ s[1] \in Years /\ s[3] \in Months \cup Unpadded
     /\ s[5] \in Days \cup Unpadded
  THEN Ret([year |-> s[1], month |-> s[3], day |-> s[5]])
  ELSE Raise("ValueError", "time data does not match format '%Y-%m-%d'")

\* the literals float() converts, after it strips surrounding whitespace
FloatLiterals ==
  (<<"1">> :> "1.0") @@ (<<"0", ".", "5">> :> "0.5")
    @@ (<<"-", "1">> :> "-1.0") @@ (<<"n", "a", "n">> :> "nan")

\* float(s)
ParseFloat(s) ==
  IF strip(s) \in DOMAIN FloatLiterals THEN Ret(FloatLiterals[strip(s)])
  ELSE Raise("ValueError", "could not convert string to float")

\* what the user can type at each prompt
TypedSymbols ==
  {<<"A">>, <<"a", ",", " ", "b">>, <<" ", "A", ",", "B", " ">>, <<>>}
TypedDates ==
  {<<"2025", "-", "06", "-", "01">>, <<"2025", "-", "6", "-", "30">>,
   <<" ", "2025", "-", "06", "-", "30", " ">>,
   <<"06", "/", "01", "/", "2025">>, <<>>}
TypedChoices ==
  {<<"y", "e", "s">>, <<" ", "Y", "e", "s", " ">>, <<"y">>, <<"n", "o">>,
   <<>>}
TypedBuySymbols == {<<"A">>, <<" ", "b", " ">>, <<"C">>, <<>>}
TypedQuantities ==
  {<<"1">>, <<" ", "0", ".", "5", " ">>, <<"-", "1">>, <<"n", "a", "n">>,
   <<"t", "e", "n">>, <<>>}

\* the data client's answer: it raises, or returns a frame that holds rows
\* for some of the symbols
FrameResponses ==
  {[kind |-> "raise", rows |-> {}]}
    \cup {[kind |-> "ok", rows |-> rows] : rows \in SUBSET {"A", "B"}}

Ended(r, line) == [r EXCEPT !.pc = "done", !.printed = line]

Passed(r, step) == [r EXCEPT !.steps = Append(r.steps, step)]

\* lines 12-26: the credentials, the symbols and the two dates are read and
\* the dates are parsed
EnterSymbolsAndDates ==
  /\ run.pc = "prompt_symbols"
  /\ \E typed \in TypedSymbols, start_in \in TypedDates,
        end_in \in TypedDates :
       LET r == [run EXCEPT !.symbols_in = typed,
                            !.symbols = EnteredSymbols(typed),
                            !.start_str = strip(start_in),
                            !.end_str = strip(end_in)]
       IN  run' = IF strptime(r.start_str).exc \/ strptime(r.end_str).exc
                  THEN Ended(r, "Invalid date format. Please use YYYY-MM-DD.")
                  ELSE [Passed(r, "dates") EXCEPT !.pc = "fetch"]
  /\ UNCHANGED <<pc, op, args, env, calls, ret, artifacts,
                 tasks, globals, submitted, dispatched>>

\* lines 28-61: the bars are fetched and the closing prices plotted; xs()
\* raises KeyError for a symbol without rows, and plt can raise
FetchAndPlot ==
  /\ run.pc = "fetch"
  /\ \E resp \in FrameResponses, plt \in {"ok", "raise"} :
       run' =
         IF resp.kind = "raise"
         THEN Ended(run, "Error fetching or plotting data")
         ELSE LET r == [run EXCEPT !.fetched = resp.rows]
              IN  IF resp.rows = {}
                  THEN Ended(r, "No historical data found")
                  ELSE IF \/ \E i \in 1..Len(run.symbols) :
                               run.symbols[i] \notin resp.rows
                          \/ plt = "raise"
                  THEN Ended(r, "Error fetching or plotting data")
                  ELSE [Passed(r, "plot") EXCEPT !.pc = "prompt_choice"]
  /\ UNCHANGED <<pc, op, args, env, calls, ret, artifacts,
                 tasks, globals, submitted, dispatched>>

\* lines 64-67
AnswerBuyChoice ==
  /\ run.pc = "prompt_choice"
  /\ \E typed \in TypedChoices :
       LET r == [run EXCEPT !.choice_in = typed]
           buy_choice == lower(strip(typed))
       IN  run' = IF buy_choice # <<"y", "e", "s">>
                  THEN Ended(r, "No order placed.")
                  ELSE [Passed(r, "yes") EXCEPT !.pc = "prompt_buy_symbol"]
  /\ UNCHANGED <<pc, op, args, env, calls, ret, artifacts,
                 tasks, globals, submitted, dispatched>>

\* lines 70-73
ChooseBuySymbol ==
  /\ run.pc = "prompt_buy_symbol"
  /\ \E typed \in TypedBuySymbols :
       LET buy_symbol == Str(upper(strip(typed)))
           r == [run EXCEPT !.buy_symbol_in = typed,
                            !.buy_symbol = buy_symbol]
       IN  run' = IF \A i \in 1..Len(run.symbols) :
                       run.symbols[i] # buy_symbol
                  THEN Ended(r, "was not in your original selection.")
                  ELSE [Passed(r, "symbol") EXCEPT !.pc = "prompt_qty"]
  /\ UNCHANGED <<pc, op, args, env, calls, ret, artifacts,
                 tasks, globals, submitted, dispatched>>

\* lines 84-89
BuyOrderRequestGTC(buy_symbol, qty) ==
  [symbol |-> buy_symbol, qty |-> qty, side |-> "BUY",
   time_in_force |-> "GTC"]
BuyOrderRequest(buy_symbol, qty) ==
  [symbol |-> buy_symbol, qty |-> qty, side |-> "BUY",
   time_in_force |-> "DAY"]

\* lines 74-107: the quantity is read and parsed, the order is submitted
\* and the recent orders are listed; building the request is outside any
\* try block, and a failed listing ends the run like a successful one
EnterQuantity ==
  /\ run.pc = "prompt_qty"
  /\ \E typed \in TypedQuantities, ctor \in {"ok", "raise"},
        submit \in {"ok", "raise"}, listing \in {"ok", "raise"} :
       LET r == [run EXCEPT !.qty_in = typed]
           qty == ParseFloat(typed)
           req == BuyOrderRequest(run.buy_symbol, qty.value)
           parsed == [Passed(r, "qty") EXCEPT !.qty = qty.value]
           sending == [parsed EXCEPT
                         !.sent = Append(parsed.sent,
                                    VendorCall("trading", "submit_order", req))]
       IN  run' =
             IF qty.exc
             THEN Ended(r, "Invalid quantity. Please enter a numeric value.")
             ELSE IF ctor = "raise"
             THEN [parsed EXCEPT !.pc = "raised", !.printed = "Traceback"]
             ELSE IF submit = "raise"
             THEN Ended(sending, "Error submitting order")
             ELSE LET done == [Passed(sending, "submit") EXCEPT
                                 !.sent = Append(sending.sent,
                                   VendorCall("trading", "get_orders",
                                              [status |-> "ALL", limit |-> 5]))]
                  IN  IF listing = "raise"
                      THEN Ended(done, "Error fetching orders")
                      ELSE Ended(done, "Order ID")
  /\ UNCHANGED <<pc, op, args, env, calls, ret, artifacts,
                 tasks, globals, submitted, dispatched>>

BuyNext ==
  \/ EnterSymbolsAndDates
  \/ FetchAndPlot
  \/ AnswerBuyChoice
  \/ ChooseBuySymbol
  \/ EnterQuantity

BuySpec == Init /\ [][BuyNext]_vars

(***************************************************************************)
(* Properties.                                                             *)
(***************************************************************************)
Returned == pc = "returned"

ReturnedDict == pc = "returned" /\ ~ret.raised

OrderOps == {"place_stock_market_order", "place_crypto_market_order"}

HasSlash(s) == \E i \in 1..Len(s) : s[i] = "/"

\* C1: every tool returns a result dictionary and never lets an exception
\* escape, whatever the arguments and the vendor's behaviour.
C1_NoExceptionEscapes == Returned => ~ret.raised

\* C2: every dictionary a tool returns has a top-level key status whose
\* value is success or error.
C2_StatusTagged ==
  ReturnedDict =>
    /\ "status" \in DOMAIN ret.value
    /\ ret.value["status"] \in {"success", "error"}

\* C3: an order placement whose side, lower-cased, is neither buy nor sell
\* returns the invalid-side error result and makes no vendor call.
C3_InvalidSideRejected ==
  (/\ Returned
   /\ op \in OrderOps
   /\ args.side.ty = "str"
   /\ [i \in 1..Len(args.side.s) |-> LowerChar(args.side.s[i])]
        \notin {<<"b","u","y">>, <<"s","e","l","l">>})
  => /\ ~ret.raised
     /\ ret.value = [status |-> "error",
                     message |-> "Invalid order side. Use 'buy' or 'sell'."]
     /\ calls = <<>>

C3_Witness ==
  /\ Returned
  /\ op = "place_stock_market_order"
  /\ args.side = PyStr(<<"h","o","l","d">>)
  /\ ~ret.raised
  /\ ret.value["status"] = "error"
  /\ calls = <<>>

BuySpellings == {<<"b","u","y">>, <<"B","U","Y">>, <<"B","u","y">>}
SellSpellings ==
  {<<"s","e","l","l">>, <<"S","E","L","L">>, <<"s","E","l","L">>}

\* C4: a side that spells buy in any letter case is submitted as the buy
\* side and one that spells sell as the sell side, never the opposite.
C4_SideMapping ==
  (Returned /\ op \in OrderOps) =>
    \A i \in 1..Len(calls) :
      calls[i].endpoint = "submit_order" =>
        /\ args.side.s \in BuySpellings \cup SellSpellings
        /\ args.side.s \in BuySpellings => calls[i].req.side = "BUY"
        /\ args.side.s \in SellSpellings => calls[i].req.side = "SELL"

C4_Witness ==
  /\ Returned
  /\ op = "place_crypto_market_order"
  /\ args.side = PyStr(<<"B","u","y">>)
  /\ Len(calls) = 1
  /\ calls[1].endpoint = "submit_order"
  /\ calls[1].req.side = "BUY"

\* C5: every submitted order request is a market order; its time-in-force
\* is DAY through place_stock_market_order and GTC through
\* place_crypto_market_order, whatever the symbol, quantity and side.
C5_MarketTypeAndTimeInForce ==
  Returned =>
    \A i \in 1..Len(calls) :
      calls[i].endpoint = "submit_order" =>
        /\ op \in OrderOps
        /\ calls[i].req.type = "MARKET"
        /\ op = "place_stock_market_order" =>
             calls[i].req.time_in_force = "DAY"
        /\ op = "place_crypto_market_order" =>
             calls[i].req.time_in_force = "GTC"

C5_Witness ==
  /\ Returned
  /\ op = "place_crypto_market_order"
  /\ args.symbol = <<"A">>
  /\ Len(calls) = 1
  /\ calls[1].req.type = "MARKET"
  /\ calls[1].req.time_in_force = "GTC"

\* the asset class a vendor call was routed to
CryptoPath(call) ==
  \/ call.client = "crypto_data"
  \/ call.endpoint = "submit_order" /\ call.req.time_in_force = "GTC"

EquityPath(call) ==
  \/ call.client = "stock_data"
  \/ call.endpoint = "submit_order" /\ call.req.time_in_force = "DAY"

RoutedBySymbol(symbol, call) ==
  IF HasSlash(symbol) THEN CryptoPath(call) ELSE EquityPath(call)

SingleSymbolOps ==
  {"get_current_price", "get_today_candlestick_crypto_data",
   "get_today_candlestick_stock_data", "place_stock_market_order",
   "place_crypto_market_order"}

\* C6 as stated: in every operation that takes a symbol, a symbol with a "/"
\* is routed through the crypto path and any other through the equity path.
C6_RoutedBySymbolEverywhere ==
  /\ (Returned /\ op \in SingleSymbolOps) =>
       \A i \in 1..Len(calls) :
         RoutedBySymbol(IF op \in OrderOps THEN args.symbol
                        ELSE args.symbol.s, calls[i])
  /\ (Returned /\ op = "get_historical_prices") =>
       \A i \in 1..Len(calls) :
         RoutedBySymbol(SymbolList(args.symbols.s)[i], calls[i])

\* C6 amended: get_current_price and get_historical_prices route each
\* symbol by its "/"; the today-candlestick operations and order placement
\* route by the operation that was invoked, whatever the symbol.
C6_RoutedBySymbolOrOperation ==
  /\ (Returned /\ op = "get_current_price") =>
       \A i \in 1..Len(calls) : RoutedBySymbol(args.symbol.s, calls[i])
  /\ (Returned /\ op = "get_historical_prices") =>
       \A i \in 1..Len(calls) :
         RoutedBySymbol(SymbolList(args.symbols.s)[i], calls[i])
  /\ (Returned /\ op \in {"get_today_candlestick_crypto_data",
                          "place_crypto_market_order"}) =>
       \A i \in 1..Len(calls) : CryptoPath(calls[i])
  /\ (Returned /\ op \in {"get_today_candlestick_stock_data",
                          "place_stock_market_order"}) =>
       \A i \in 1..Len(calls) : EquityPath(calls[i])

C6_Witness ==
  /\ Returned
  /\ op = "get_historical_prices"
  /\ args.symbols = PyStr(<<"A", ",", "B", "/", "U">>)
  /\ Len(calls) = 2
  /\ calls[1].client = "stock_data"
  /\ calls[2].client = "crypto_data"

\* a vendor response that holds no bar for the requested symbol
HoldsNoBars(vresp) ==
  vresp.kind = "ok" /\ (vresp.data.key # "same" \/ vresp.data.bars = <<>>)

SingleBarOps ==
  {"get_current_price", "get_today_candlestick_crypto_data",
   "get_today_candlestick_stock_data"}

\* the entries of a per-symbol result
IsPerSymbol(result) == "status" \notin DOMAIN result

\* C7: when the vendor's response lacks the symbol or holds no bar for it,
\* the result for that symbol is an error, and no result is a success with
\* an empty bar sequence.  (In get_historical_prices the entry of a symbol
\* listed twice comes from its last request.)
C7_NoBarsIsError ==
  /\ (ReturnedDict /\ op \in SingleBarOps /\ Len(calls) = 1
        /\ HoldsNoBars(env.vendor[1]))
       => ret.value["status"] = "error"
  /\ (ReturnedDict /\ op \in {"get_today_candlestick_crypto_data",
                              "get_today_candlestick_stock_data"}
        /\ ret.value["status"] = "success")
       => ret.value["candlestick_data"] # <<>>
  /\ (ReturnedDict /\ op = "get_historical_prices"
        /\ IsPerSymbol(ret.value)) =>
       /\ \A i \in 1..Len(calls) :
            LET tokens == SymbolList(args.symbols.s)
            IN  (/\ HoldsNoBars(env.vendor[i])
                 /\ \A j \in (i + 1)..Len(calls) : tokens[j] # tokens[i])
                => ret.value[Str(tokens[i])]["status"] = "error"
       /\ \A k \in DOMAIN ret.value :
            ret.value[k]["status"] = "success" =>
              ret.value[k]["historical_data"] # <<>>
  /\ (ReturnedDict /\ op = "get_yesterdays_price_action"
        /\ ret.value["status"] = "success")
       => ret.value["yesterdays_price_action"] # <<>>

C7_Witness ==
  /\ ReturnedDict
  /\ op = "get_historical_prices"
  /\ Len(calls) = 2
  /\ env.vendor[1] = VOk([key |-> "same", bars |-> <<>>])
  /\ IsPerSymbol(ret.value)
  /\ ret.value["A"]["status"] = "error"
  /\ ret.value["B/U"]["status"] = "success"

\* the fields the normalization of an operation reads from each item
ReadFields(o) ==
  IF o \in OrderOps \cup {"get_all_orders", "get_open_orders",
                          "get_closed_orders"}
  THEN {OrderReadFields[i] : i \in 1..Len(OrderReadFields)}
  ELSE IF o = "get_all_open_positions"
  THEN {PositionReadFields[i] : i \in 1..Len(PositionReadFields)}
  ELSE IF o = "get_account_information"
  THEN {AccountReadFields[i] : i \in 1..Len(AccountReadFields)}
  ELSE {"symbol"}

ListOps ==
  {"get_all_orders", "get_open_orders", "get_closed_orders",
   "get_all_open_positions", "get_supported_crypto_symbols"}

\* the items of the payload the trading client returned
PayloadItems(o, vresp) ==
  IF o \in ListOps THEN {vresp.data[i] : i \in 1..Len(vresp.data)}
  ELSE {vresp.data}

\* C8: an operation backed by the trading client returns an error result
\* whenever an item of the vendor's payload lacks a field the normalization
\* reads; no such item is dropped or defaulted in a success result.
C8_NoPartialNormalization ==
  (/\ ReturnedDict
   /\ op \in OrderOps \cup ListOps \cup {"get_account_information"}
   /\ Len(calls) = 1
   /\ env.vendor[1].kind = "ok"
   /\ \E item \in PayloadItems(op, env.vendor[1]) :
        ~(ReadFields(op) \subseteq DOMAIN item))
  => ret.value["status"] = "error"

\* C9: cancel_order_by_id returns the vendor's error message unchanged when
\* the vendor raises, and otherwise success with the order id passed in.
C9_CancelResult ==
  (Returned /\ op = "cancel_order_by_id" /\ args.order_id.ty = "str") =>
    /\ ~ret.raised
    /\ env.vendor[1].kind = "raise" =>
         ret.value = [status |-> "error", message |-> env.vendor[1].msg]
    /\ env.vendor[1].kind # "raise" =>
         ret.value = [status |-> "success",
                      cancelled_order |-> args.order_id.v]

C9_Witness ==
  /\ Returned
  /\ op = "cancel_order_by_id"
  /\ args.order_id = [ty |-> "str", v |-> "o-1"]
  /\ env.vendor[1] = VRaise("order not found")
  /\ ~ret.raised
  /\ ret.value = [status |-> "error", message |-> "order not found"]

KnownIntervals ==
  {<<"m","i","n","u","t","e">>, <<"h","o","u","r">>, <<"d","a","y">>}

\* C10: in get_historical_prices an interval that spells minute, hour or
\* day in any letter case selects that timeframe; any other interval string
\* is treated as day: the invocation makes the calls and returns the result
\* of the same invocation with interval day.
C10_IntervalDefaultsToDay ==
  (Returned /\ op = "get_historical_prices" /\ args.interval.ty = "str") =>
    LET spelled == [i \in 1..Len(args.interval.s) |->
                      LowerChar(args.interval.s[i])]
        asDay == get_historical_prices(args.symbols, args.start, args.end,
                                       PyStr(<<"d","a","y">>), env.vendor)
    IN  /\ \A i \in 1..Len(calls) :
             /\ spelled = <<"m","i","n","u","t","e">> =>
                  calls[i].req.timeframe = "Minute"
             /\ spelled = <<"h","o","u","r">> =>
                  calls[i].req.timeframe = "Hour"
             /\ spelled \notin {<<"m","i","n","u","t","e">>, <<"h","o","u","r">>}
                  => calls[i].req.timeframe = "Day"
        /\ spelled \notin KnownIntervals =>
             /\ ~ret.raised
             /\ calls = asDay.calls
             /\ ret.value = asDay.out.value

C10_Witness ==
  /\ ReturnedDict
  /\ op = "get_historical_prices"
  /\ args.interval = PyStr(<<"w","e","e","k">>)
  /\ Len(calls) = 1
  /\ calls[1].req.timeframe = "Day"
  /\ IsPerSymbol(ret.value)
  /\ ret.value["A"]["status"] = "success"

IntervalOps == {"get_historical_prices", "plot_price_action"}

\* the interval argument is a string that spells none of minute, hour, day
UnknownInterval ==
  /\ args.interval.ty = "str"
  /\ [i \in 1..Len(args.interval.s) |-> LowerChar(args.interval.s[i])]
       \notin KnownIntervals

\* the invocation that differs from the returned one only by interval day
AsDay ==
  IF op = "plot_price_action"
  THEN plot_price_action(args.symbol, args.start, args.end,
                         PyStr(<<"d","a","y">>), env.chart, env.vendor)
  ELSE get_historical_prices(args.symbols, args.start, args.end,
                             PyStr(<<"d","a","y">>), env.vendor)

\* C11 as stated: an unknown interval passed to get_historical_prices or
\* plot_price_action is returned as an error-tagged result, and no vendor
\* call is made.
C11_UnknownIntervalRejected ==
  (Returned /\ op \in IntervalOps /\ UnknownInterval) =>
    /\ ~ret.raised
    /\ "status" \in DOMAIN ret.value
    /\ ret.value["status"] = "error"
    /\ calls = <<>>

\* C11 amended: an unknown interval string is not rejected: both operations
\* make the vendor calls and return the result of the same invocation with
\* interval day; only an interval that is no string is returned as an error
\* before any vendor call.
C11_UnknownIntervalProceedsAsDay ==
  /\ (Returned /\ op \in IntervalOps /\ UnknownInterval) =>
       /\ ~ret.raised
       /\ calls = AsDay.calls
       /\ artifacts = AsDay.arts
       /\ ret.value = AsDay.out.value
  /\ (Returned /\ op \in IntervalOps /\ args.interval.ty # "str") =>
       /\ ~ret.raised
       /\ ret.value["status"] = "error"
       /\ calls = <<>>

C11_Witness ==
  /\ ReturnedDict
  /\ op = "plot_price_action"
  /\ args.interval = PyStr(<<"w","e","e","k">>)
  /\ Len(calls) = 1
  /\ calls[1].req.timeframe = "Day"
  /\ ret.value["status"] = "success"
  /\ artifacts = <<"price_action">>

\* a date argument dt.datetime.fromisoformat parses
Parseable(d) == d.ty = "str" /\ IsIsoDate(d.s)

\* C12: when start or end of get_historical_prices is not a parseable ISO
\* date, the operation returns an error-tagged result and makes no vendor
\* call, whatever the symbols argument.
C12_UnparseableDateRejected ==
  (/\ Returned
   /\ op = "get_historical_prices"
   /\ ~Parseable(args.start) \/ ~Parseable(args.end))
  => /\ ~ret.raised
     /\ "status" \in DOMAIN ret.value
     /\ ret.value["status"] = "error"
     /\ "message" \in DOMAIN ret.value
     /\ calls = <<>>

C12_Witness ==
  /\ ReturnedDict
  /\ op = "get_historical_prices"
  /\ args.symbols = PyStr(<<"A", ",", "B", "/", "U">>)
  /\ args.start = PyStr(<<"2025", "-", "06", "-", "01">>)
  /\ args.end = PyStr(<<"2025", "-", "13", "-", "30">>)
  /\ args.interval = PyStr(<<"d","a","y">>)
  /\ ret.value = ErrorResult("Invalid isoformat string: '2025-13-30'")
  /\ calls = <<>>

CandleOps ==
  {"get_today_candlestick_crypto_data", "get_today_candlestick_stock_data"}

BarFields == {"o", "h", "l", "c", "v", "t"}

\* a normalized record that carries the six fields of the vendor's bar
BarRecordMatches(rec, bar) ==
  /\ {"open", "high", "low", "close", "volume", "timestamp"}
       \subseteq DOMAIN rec
  /\ rec["open"] = bar["o"] /\ rec["high"] = bar["h"]
  /\ rec["low"] = bar["l"] /\ rec["close"] = bar["c"]
  /\ rec["volume"] = bar["v"]
  /\ rec["timestamp"].date = bar["t"].date
  /\ rec["timestamp"].hour = bar["t"].hour

\* the records are the vendor's bars, one for one and in the same order
BarRecordsMatch(recs, bars) ==
  /\ Len(recs) = Len(bars)
  /\ \A i \in 1..Len(bars) :
       BarFields \subseteq DOMAIN bars[i] => BarRecordMatches(recs[i], bars[i])

\* C13: in every operation that returns bar records, each record carries
\* open, high, low, close, volume and timestamp, taken from o, h, l, c, v
\* and t of the same vendor bar with the values unchanged, and the records
\* are in the vendor's order with none added or dropped.
C13_BarRecordsRoundTrip ==
  /\ (ReturnedDict /\ op \in CandleOps /\ ret.value["status"] = "success")
       => BarRecordsMatch(ret.value["candlestick_data"],
                          env.vendor[1].data.bars)
  /\ (ReturnedDict /\ op = "get_yesterdays_price_action"
        /\ ret.value["status"] = "success")
       => BarRecordsMatch(ret.value["yesterdays_price_action"],
                          env.vendor[1].data.bars)
  /\ (ReturnedDict /\ op = "get_historical_prices"
        /\ IsPerSymbol(ret.value)) =>
       \A i \in 1..Len(calls) :
         LET tokens == SymbolList(args.symbols.s)
             entry == ret.value[Str(tokens[i])]
         IN  (/\ entry["status"] = "success"
              /\ \A j \in (i + 1)..Len(calls) : tokens[j] # tokens[i])
             => BarRecordsMatch(entry["historical_data"],
                                env.vendor[i].data.bars)

\* C14: when the vendor returns a non-empty bar list for the symbol,
\* get_current_price returns success with the symbol passed in, the close
\* of the last bar of the list as price and the time of that same bar as
\* timestamp.
C14_CurrentPriceFromLastBar ==
  (/\ Returned
   /\ op = "get_current_price"
   /\ args.symbol.ty = "str"
   /\ env.vendor[1].kind = "ok"
   /\ env.vendor[1].data.key = "same"
   /\ env.vendor[1].data.bars # <<>>
   /\ {"c", "t"} \subseteq
        DOMAIN env.vendor[1].data.bars[Len(env.vendor[1].data.bars)])
  => LET bar_list == env.vendor[1].data.bars
     IN  /\ ~ret.raised
         /\ ret.value = [status |-> "success",
                         symbol |-> Str(args.symbol.s),
                         price |-> bar_list[Len(bar_list)]["c"],
                         timestamp |-> bar_list[Len(bar_list)]["t"]]

C14_Witness ==
  /\ ReturnedDict
  /\ op = "get_current_price"
  /\ args.symbol = PyStr(<<"B", "/", "U">>)
  /\ env.vendor[1] = VOk([key |-> "same",
                          bars |-> <<Bar(10, Timestamp(13, 0)),
                                     Bar(20, Timestamp(14, 5))>>])
  /\ ret.value = [status |-> "success", symbol |-> "B/U", price |-> 21,
                  timestamp |-> Timestamp(14, 5)]

\* C15: panic_exit makes exactly one vendor call, close_all_positions with
\* cancel_orders set, and close_all_positions exactly one with cancel_orders
\* cleared; neither makes any other call, and each returns success exactly
\* when that call returned without raising.
C15_OneCloseAllCall ==
  (Returned /\ op \in {"panic_exit", "close_all_positions"}) =>
    /\ calls = <<[client |-> "trading", endpoint |-> "close_all_positions",
                  req |-> [cancel_orders |-> (op = "panic_exit")]]>>
    /\ ~ret.raised
    /\ ret.value["status"] \in {"success", "error"}
    /\ ret.value["status"] = "success" <=> env.vendor[1].kind # "raise"

C15_Witness ==
  /\ ReturnedDict
  /\ op = "panic_exit"
  /\ env.vendor[1].kind = "ok"
  /\ Len(calls) = 1
  /\ calls[1].req.cancel_orders
  /\ ret.value["status"] = "success"

ChartOps ==
  CandleOps \cup {"get_all_open_positions", "get_account_information"}

NoChart == [flag |-> FALSE, ctx |-> FALSE, fail |-> 0]

\* the returned invocation with the same arguments and vendor response but
\* chart generation disabled
WithoutChart ==
  IF op = "get_all_open_positions"
  THEN get_all_open_positions(NoChart, env.vendor[1])
  ELSE IF op = "get_account_information"
  THEN get_account_information(NoChart, env.vendor[1])
  ELSE IF op = "get_today_candlestick_crypto_data"
  THEN get_today_candlestick_crypto_data(args.symbol, NoChart, env.vendor[1])
  ELSE get_today_candlestick_stock_data(args.symbol, NoChart, env.vendor[1])

\* C16: for get_all_open_positions, get_account_information and the two
\* today-candlestick operations the result for a given vendor response is
\* the same whether chart generation is disabled, succeeds or fails.
C16_ChartIsSideChannel ==
  (Returned /\ op \in ChartOps) =>
    /\ ~ret.raised
    /\ ret.value = WithoutChart.out.value

HistoricalOps ==
  {"get_historical_prices", "get_yesterdays_price_action",
   "plot_price_action"}

\* the symbol tokens of an invocation that reached the vendor
RequestedTokens ==
  SymbolList(IF op = "get_historical_prices" THEN args.symbols.s
             ELSE args.symbol.s)

\* C19: no operation retries: within one invocation a vendor call that
\* raised is the last one.  Every operation but get_historical_prices and
\* its two wrappers makes at most one vendor call; those three make at most
\* one call per symbol token, in the order of the list.
C19_NoRetry ==
  Returned =>
    /\ op \notin HistoricalOps => Len(calls) <= 1
    /\ (op \in HistoricalOps /\ calls # <<>>) =>
         /\ Len(calls) <= Len(RequestedTokens)
         /\ \A i \in 1..Len(calls) :
              calls[i].req.symbol_or_symbols = Str(RequestedTokens[i])
    /\ \A i \in 1..Len(calls) :
         env.vendor[i].kind = "raise" => i = Len(calls)

C19_Witness ==
  /\ ReturnedDict
  /\ op = "get_historical_prices"
  /\ args.symbols = PyStr(<<"A", ",", "B", "/", "U">>)
  /\ Len(env.vendor) = 2
  /\ env.vendor[1] = VRaise("forbidden")
  /\ Len(calls) = 1
  /\ calls[1].req.symbol_or_symbols = "A"
  /\ ret.value = ErrorResult("forbidden")

\* the handler of a task's invocation, run alone from entry to return with
\* the task's own arguments and the responses to its own requests
RunAlone(task) ==
  IF task.op = "place_stock_market_order"
  THEN place_stock_market_order(task.args.symbol, task.args.quantity,
                                task.args.side, task.env.ctor,
                                task.env.vendor[1])
  ELSE IF task.op = "place_crypto_market_order"
  THEN place_crypto_market_order(task.args.symbol, task.args.quantity,
                                 task.args.side, task.env.ctor,
                                 task.env.vendor[1])
  ELSE IF task.op = "get_all_open_positions"
  THEN get_all_open_positions(task.env.chart, task.env.vendor[1])
  ELSE IF task.op = "get_account_information"
  THEN get_account_information(task.env.chart, task.env.vendor[1])
  ELSE get_yesterdays_price_action(task.args.symbol, task.env.vendor)

C18_SuspendsOnlyAtVendorCalls ==
  \A t \in Tasks :
    /\ tasks[t].pc = "suspended" => tasks[t].awaiting = "vendor"
    /\ tasks[t].pc = "returned" => tasks[t].suspensions = Len(tasks[t].calls)

\* a dispatched order placement with valid arguments
ValidOrder(d) ==
  /\ d.op \in OrderOps
  /\ d.args.side.ty = "str"
  /\ d.args.side.s \in BuySpellings \cup SellSpellings

\* the order request such an invocation stands for
OrderRequestOf(d) ==
  [symbol |-> Str(d.args.symbol), qty |-> d.args.quantity,
   side |-> IF d.args.side.s \in BuySpellings THEN "BUY" ELSE "SELL",
   type |-> "MARKET",
   time_in_force |-> IF d.op = "place_stock_market_order" THEN "DAY"
                     ELSE "GTC"]

QueryOps ==
  HistoricalOps \cup ChartOps \cup
    {"get_all_orders", "get_open_orders", "get_closed_orders",
     "get_supported_crypto_symbols", "fetch_today_news_for_symbol",
     "get_current_price"}

StateChangingEndpoints ==
  {"submit_order", "cancel_order_by_id", "close_all_positions"}

\* C21: a query operation never calls a state-changing vendor endpoint, and
\* what it reports comes from requests of the same invocation: a success
\* result, and every entry of a per-symbol result, has a request of this
\* invocation that the vendor answered, and the snapshot it carries is the
\* payload of that answer.
C21_QueriesReadFresh ==
  (ReturnedDict /\ op \in QueryOps) =>
    /\ \A i \in 1..Len(calls) :
         calls[i].endpoint \notin StateChangingEndpoints
    /\ ("status" \in DOMAIN ret.value /\ ret.value["status"] = "success") =>
         /\ calls # <<>>
         /\ \A i \in 1..Len(calls) : env.vendor[i].kind = "ok"
    /\ (op = "get_historical_prices" /\ IsPerSymbol(ret.value)) =>
         \A k \in DOMAIN ret.value :
           \E i \in 1..Len(calls) :
             /\ calls[i].req.symbol_or_symbols = k
             /\ env.vendor[i].kind = "ok"
    /\ (op = "get_account_information" /\ ret.value["status"] = "success") =>
         /\ ret.value["account"]["cash"] = env.vendor[1].data["cash"]
         /\ ret.value["account"]["account_number"]
              = env.vendor[1].data["account_number"]
    /\ (op = "get_all_open_positions" /\ ret.value["status"] = "success") =>
         /\ Len(ret.value["open_positions"]) = Len(env.vendor[1].data)
         /\ \A i \in 1..Len(env.vendor[1].data) :
              ret.value["open_positions"][i]["symbol"]
                = env.vendor[1].data[i]["symbol"]

C21_Witness ==
  /\ ReturnedDict
  /\ op = "get_account_information"
  /\ env.vendor[1] = VOk(FullAccount)
  /\ Len(calls) = 1
  /\ calls[1].endpoint = "get_account"
  /\ ret.value["status"] = "success"
  /\ ret.value["account"]["cash"] = FullAccount["cash"]

\* the public coroutine functions of the adapter module
PublicOperations ==
  {"fetch_today_news_for_symbol", "get_supported_crypto_symbols",
   "place_crypto_market_order", "place_stock_market_order",
   "get_all_orders", "get_open_orders", "get_closed_orders",
   "cancel_order_by_id", "get_all_open_positions", "panic_exit",
   "close_all_positions", "get_account_information",
   "get_today_candlestick_crypto_data", "get_today_candlestick_stock_data",
   "get_current_price", "get_historical_prices",
   "get_yesterdays_price_action", "plot_price_action"}

\* C22: every public adapter operation is in the registry exactly once,
\* under its own name and bound to the adapter function itself, so that the
\* tool an invocation ran under is the function that produced its result;
\* the agent's list is the registry followed by get_current_date alone.
C22_RegistryIsTheAdapter ==
  /\ \A f \in PublicOperations :
       Cardinality({i \in 1..Len(tools) : tools[i].name = f}) = 1
  /\ \A i \in 1..Len(tools) :
       tools[i].name \in PublicOperations /\ tools[i].func = tools[i].name
  /\ Len(all_tools) = Len(tools) + 1
  /\ \A i \in 1..Len(tools) : all_tools[i] = tools[i]
  /\ all_tools[Len(all_tools)].func = "get_current_date"
  /\ Returned =>
       \E i \in 1..Len(all_tools) :
         all_tools[i].name = op /\ all_tools[i].func = op

C22_Witness ==
  /\ Returned
  /\ op = "panic_exit"
  /\ \E i \in 1..Len(all_tools) : all_tools[i].func = "panic_exit"
  /\ Len(all_tools) = 19

\* an error-tagged dictionary carries its text under message
ErrorHasMessage(r) ==
  r["status"] = "error" =>
    /\ "message" \in DOMAIN r
    /\ r["message"] \in STRING
    /\ "news" \notin DOMAIN r

\* C23: every error-tagged result, top-level or per symbol, carries a
\* message key holding a string; fetch_today_news_for_symbol never returns
\* an error result that has a news key instead.
C23_ErrorsCarryMessage ==
  ReturnedDict =>
    IF IsPerSymbol(ret.value)
    THEN \A k \in DOMAIN ret.value : ErrorHasMessage(ret.value[k])
    ELSE ErrorHasMessage(ret.value)

C23_Witness ==
  /\ ReturnedDict
  /\ op = "fetch_today_news_for_symbol"
  /\ args.symbol = PyStr(<<"A">>)
  /\ env.vendor[1] = VOk([news |-> <<>>, next_page_token |-> "MTc1"])
  /\ ret.value["status"] = "error"
  /\ ret.value["message"] = NoNewsMessage("A")
  /\ DOMAIN ret.value = {"status", "message"}

\* the non-empty stripped tokens of a comma-separated string, in order
TokensOf(symbols) ==
  LET parts == split(symbols, ",")
  IN  SelectSeq([i \in 1..Len(parts) |-> strip(parts[i])],
                LAMBDA t : t # <<>>)

\* the entry a per-symbol result holds for the i-th token, given that the
\* token does not occur again later in the list
EntryMatches(entry, vresp) ==
  IF HoldsNoBars(vresp)
  THEN entry["status"] = "error" /\ "message" \in DOMAIN entry
  ELSE /\ entry["status"] = "success"
       /\ Len(entry["historical_data"]) = Len(vresp.data.bars)

\* the result is the per-symbol mapping of the tokens of symbols
IsMappingOfTokens ==
  /\ ~ret.raised
  /\ IsPerSymbol(ret.value)
  /\ args.symbols.ty = "str"
  /\ DOMAIN ret.value =
       {Str(TokensOf(args.symbols.s)[i]) :
          i \in 1..Len(TokensOf(args.symbols.s))}
  /\ Len(calls) = Len(TokensOf(args.symbols.s))
  /\ \A i \in 1..Len(calls) :
       LET tokens == TokensOf(args.symbols.s)
       IN  (\A j \in (i + 1)..Len(calls) : tokens[j] # tokens[i]) =>
             EntryMatches(ret.value[Str(tokens[i])], env.vendor[i])

\* C24 as stated: whenever no vendor call of a get_historical_prices
\* invocation with well-formed arguments raised, the result is the mapping
\* from the distinct non-empty stripped tokens of symbols to a success entry
\* with the symbol's bars or an error entry when the vendor returned none,
\* every token being fetched.
C24_MappingUnlessVendorRaises ==
  (/\ Returned
   /\ op = "get_historical_prices"
   /\ args.interval.ty = "str" /\ args.symbols.ty = "str"
   /\ Parseable(args.start) /\ Parseable(args.end)
   /\ \A i \in 1..Len(env.vendor) : env.vendor[i].kind # "raise")
  => IsMappingOfTokens

\* every column the normalization selects is held by some bar of the list
Normalizable(bar_list) ==
  \A c \in {"t", "o", "h", "l", "c", "v", "n"} :
    \E i \in 1..Len(bar_list) : c \in DOMAIN bar_list[i]

\* C24 amended: the result is that mapping when interval and symbols are
\* strings, start and end parse, every vendor call returned a mapping, and
\* every non-empty bar list holds the columns the normalization selects.
C24_MappingOnCleanRun ==
  (/\ Returned
   /\ op = "get_historical_prices"
   /\ args.interval.ty = "str" /\ args.symbols.ty = "str"
   /\ Parseable(args.start) /\ Parseable(args.end)
   /\ \A i \in 1..Len(env.vendor) :
        /\ env.vendor[i].kind = "ok"
        /\ HoldsNoBars(env.vendor[i]) \/ Normalizable(env.vendor[i].data.bars))
  => IsMappingOfTokens

C24_Witness ==
  /\ ReturnedDict
  /\ op = "get_historical_prices"
  /\ args.symbols = PyStr(<<" ", "A", ",", ",", "A", " ">>)
  /\ Len(calls) = 2
  /\ env.vendor[1].kind = "ok" /\ ~HoldsNoBars(env.vendor[1])
  /\ env.vendor[2] = VOk([key |-> "absent", bars |-> <<>>])
  /\ DOMAIN ret.value = {"A"}
  /\ ret.value["A"]["status"] = "error"

\* the vendor call for the i-th symbol raised, returned None, or returned
\* bars the normalization raises on
FailsAt(i) ==
  \/ env.vendor[i].kind \in {"raise", "none"}
  \/ /\ env.vendor[i].kind = "ok"
     /\ ~HoldsNoBars(env.vendor[i])
     /\ ~Normalizable(env.vendor[i].data.bars)

\* C25: when get_historical_prices fails while processing its k-th symbol,
\* the result is one top-level {status: error, message} dictionary (no
\* entry of the symbols before k is in it), and exactly k vendor calls were
\* made: none for the symbols after k.
C25_FailureDiscardsEntries ==
  (/\ Returned
   /\ op = "get_historical_prices")
  => \A k \in 1..Len(env.vendor) :
       (FailsAt(k) /\ \A j \in 1..(k - 1) : ~FailsAt(j))
       => /\ ~ret.raised
          /\ DOMAIN ret.value = {"status", "message"}
          /\ ret.value["status"] = "error"
          /\ ret.value["message"] \in STRING
          /\ env.vendor[k].kind = "raise"
               => ret.value["message"] = env.vendor[k].msg
          /\ Len(calls) = k

\* the normalization raised on the second symbol after the first symbol's
\* entry had been computed
C25_Witness ==
  /\ ReturnedDict
  /\ op = "get_historical_prices"
  /\ args.symbols = PyStr(<<"A", ",", "B", "/", "U">>)
  /\ Len(env.vendor) = 2
  /\ env.vendor[1].kind = "ok" /\ ~HoldsNoBars(env.vendor[1])
  /\ Normalizable(env.vendor[1].data.bars)
  /\ env.vendor[2].kind = "ok" /\ ~HoldsNoBars(env.vendor[2])
  /\ ~Normalizable(env.vendor[2].data.bars)
  /\ Len(calls) = 2
  /\ DOMAIN ret.value = {"status", "message"}
  /\ ret.value["status"] = "error"

WrapperOps == {"get_yesterdays_price_action", "plot_price_action"}

\* what the nested get_historical_prices call of a wrapper returned
NestedResult ==
  IF op = "get_yesterdays_price_action"
  THEN get_historical_prices(args.symbol, YesterdayStart, YesterdayEnd,
                             PyStr(<<"d", "a", "y">>), env.vendor).out.value
  ELSE get_historical_prices(args.symbol, args.start, args.end,
                             args.interval, env.vendor).out.value

\* the nested result holds a success entry under the symbol argument as given
HasSuccessEntry(result) ==
  /\ args.symbol.ty = "str"
  /\ Str(args.symbol.s) \in DOMAIN result
  /\ IsPerSymbol(result)
  /\ result[Str(args.symbol.s)]["status"] = "success"

GenericMessages ==
  {"No price action found for " \o FormatSymbol(args.symbol) \o " on "
     \o Yesterday \o ".",
   "No historical data found for " \o FormatSymbol(args.symbol) \o "."}

\* C26: get_yesterdays_price_action and plot_price_action return success
\* only if the nested get_historical_prices result holds a success entry
\* under the symbol argument exactly as given; otherwise they return an
\* error with their own generic message, which is not the upstream error
\* message even when the nested call returned a top-level error.
C26_WrappersHideUpstreamError ==
  (Returned /\ op \in WrapperOps)
  => /\ ~ret.raised
     /\ ret.value["status"] = "success" => HasSuccessEntry(NestedResult)
     /\ ~HasSuccessEntry(NestedResult)
          => /\ ret.value["status"] = "error"
             /\ DOMAIN ret.value = {"status", "message"}
             /\ ret.value["message"] \in GenericMessages
             /\ ~IsPerSymbol(NestedResult)
                  => ret.value["message"] # NestedResult["message"]

\* the nested call returned the vendor's error at top level and the wrapper
\* answered with its own message
C26_Witness ==
  /\ ReturnedDict
  /\ op = "plot_price_action"
  /\ Len(env.vendor) = 1
  /\ env.vendor[1] = VRaise("forbidden")
  /\ NestedResult = ErrorResult("forbidden")
  /\ ret.value = ErrorResult("No historical data found for A.")

\* the invocation sent submit_order and the vendor returned an order
SubmitReturned ==
  /\ calls # <<>>
  /\ calls[1].endpoint = "submit_order"
  /\ env.vendor[1].kind = "ok"

\* C27: an error result of place_stock_market_order or
\* place_crypto_market_order means the vendor accepted no order in the
\* invocation: whenever submit_order returned without raising, the result
\* is a success.
C27_ErrorMeansNothingAccepted ==
  (Returned /\ op \in OrderOps /\ SubmitReturned)
  => (~ret.raised /\ ret.value["status"] = "success")

DisabledMessage == "Chart plotting is disabled or no tool context provided."

\* the invocation ran with the chart flag set and a tool context
ChartEnabled ==
  "chart" \in DOMAIN env /\ env.chart.flag /\ env.chart.ctx

\* C28: an artifact reaches the artifact sink only when the chart flag is
\* set and a tool context was supplied; without them no operation saves an
\* artifact, and plot_price_action returns success, with the "disabled"
\* message, exactly when the historical fetch returned a success entry
\* with at least one bar for the symbol.
C28_ArtifactsOnlyWhenEnabled ==
  Returned
  => /\ artifacts # <<>> => ChartEnabled
     /\ (op = "plot_price_action" /\ ~ChartEnabled)
          => /\ ~ret.raised
             /\ ret.value["status"] = "success"
                  <=> /\ HasSuccessEntry(NestedResult)
                      /\ NestedResult[Str(args.symbol.s)]["historical_data"]
                           # <<>>
             /\ ret.value["status"] = "success"
                  => ret.value["message"] = DisabledMessage

\* the flag is set but no tool context was supplied: the fetch succeeded
\* with a bar, nothing was saved and the result is the "disabled" success
C28_Witness ==
  /\ ReturnedDict
  /\ op = "plot_price_action"
  /\ env.chart.flag /\ ~env.chart.ctx
  /\ HasSuccessEntry(NestedResult)
  /\ artifacts = <<>>
  /\ ret.value = [status |-> "success", message |-> DisabledMessage]

\* the submit_order requests a run of preview_and_trade has sent
SubmitCalls ==
  SelectSeq(run.sent, LAMBDA c : c.endpoint = "submit_order")

StepsBeforeSubmit == <<"dates", "plot", "yes", "symbol", "qty">>

\* where a run stands after each number of passed steps, unless it ended
PromptAfter ==
  <<"prompt_symbols", "fetch", "prompt_choice", "prompt_buy_symbol",
    "prompt_qty">>

\* the steps of the run happened in the order of the script
StepsInOrder ==
  /\ Len(run.steps) <= 6
  /\ run.steps = SubSeq(StepsBeforeSubmit \o <<"submit">>, 1, Len(run.steps))
  /\ run.pc \in {"done", "raised"}
       \/ (Len(run.steps) < 5 /\ run.pc = PromptAfter[Len(run.steps) + 1])

\* a step before the submission failed on what the run has read so far,
\* but for the answer to the yes/no prompt
StepFailed ==
  \/ strptime(run.start_str).exc \/ strptime(run.end_str).exc
  \/ run.fetched = {}
  \/ \E i \in 1..Len(run.symbols) : run.symbols[i] \notin run.fetched
  \/ "plot" \notin {run.steps[i] : i \in 1..Len(run.steps)}
  \/ \A i \in 1..Len(run.symbols) : run.symbols[i] # run.buy_symbol
  \/ ParseFloat(run.qty_in).exc

\* at most one submission, a buy with day time-in-force of the chosen
\* symbol and the parsed quantity
OneDayBuy ==
  /\ Len(SubmitCalls) <= 1
  /\ \A i \in 1..Len(SubmitCalls) :
       /\ SubmitCalls[i].req.side = "BUY"
       /\ SubmitCalls[i].req.time_in_force = "DAY"
       /\ SubmitCalls[i].req.symbol = run.buy_symbol
       /\ SubmitCalls[i].req.qty = ParseFloat(run.qty_in).value

\* C29 as stated: a run of preview_and_trade submits at most one order, a
\* buy with day time-in-force, and only after, in this order, both dates
\* parsed, the fetch and the plot completed on non-empty data, the user
\* typed exactly "yes", the chosen symbol is one of the entered symbols and
\* the quantity parsed; a failed step ends the run with no submission.
C29_OrderOnlyAfterExactYes ==
  /\ StepsInOrder
  /\ OneDayBuy
  /\ SubmitCalls # <<>>
       => /\ SubSeq(run.steps, 1, 5) = StepsBeforeSubmit
          /\ ~StepFailed
          /\ run.choice_in = <<"y", "e", "s">>

\* C29 amended: the same, the answer being compared after it is stripped
\* of surrounding whitespace and lower-cased.
C29_OrderOnlyAfterYes ==
  /\ StepsInOrder
  /\ OneDayBuy
  /\ SubmitCalls # <<>>
       => /\ SubSeq(run.steps, 1, 5) = StepsBeforeSubmit
          /\ ~StepFailed
          /\ lower(strip(run.choice_in)) = <<"y", "e", "s">>

\* the user typed " Yes ", chose a symbol in another case than typed at
\* first, and the order was submitted
C29_Witness ==
  /\ run.pc = "done"
  /\ run.symbols_in = <<"a", ",", " ", "b">>
  /\ run.choice_in = <<" ", "Y", "e", "s", " ">>
  /\ run.buy_symbol_in = <<" ", "b", " ">>
  /\ Len(SubmitCalls) = 1
  /\ SubmitCalls[1].req = [symbol |-> "B", qty |-> "0.5", side |-> "BUY",
                           time_in_force |-> "DAY"]

====
